---- MODULE Spec2Model ----
(***************************************************************************)
(* SchemaCanvas: the normalization -> validation -> generation pipeline.   *)
(*                                                                         *)
(* Representation.                                                         *)
(*  - An identifier (table name, column name) is a sequence of one-        *)
(*    character strings, so that the character-level rules (snake_case,    *)
(*    toLowerCase, trim) are computed and not assumed.                     *)
(*  - A declared type and a default kind are TLA+ strings ("" is the empty *)
(*    string of the source).                                               *)
(*  - An optional field (foreignKey?, default?) is a sequence of length 0  *)
(*    (absent) or 1 (present).                                             *)
(*  - A JavaScript object used as a name-keyed mapping is the sequence of  *)
(*    its entries [key, val] in insertion order; assigning an existing key *)
(*    replaces the value in place (ObjSet).  The names drawn by the        *)
(*    specifications are never integer-like, so Object.entries iterates in *)
(*    insertion order.                                                     *)
(*  - Identifiers made by crypto.randomUUID() are natural numbers taken    *)
(*    from a counter: fresh and pairwise distinct.                         *)
(***************************************************************************)
EXTENDS Integers, Sequences, FiniteSets, TLC

VARIABLES
    tables,      \* editor graph: Table[] (store.tables / normalizeSchema's argument)
    relations,   \* editor graph: Relation[]
    schema,      \* the canonical NormalizedSchema at hand
    out,         \* result of the last operation (denormalize / validate / guard)
    pc,          \* position in the pipeline
    isNormalized,\* store.isNormalized
    page         \* the editor page: URL, projectId state, loadingRef, fetches in flight

vars == <<tables, relations, schema, out, pc, isNormalized, page>>

(***************************************************************************)
(* Bounds of the model                                                     *)
(***************************************************************************)
MaxTables == 2
MaxCols == 2
MaxWords == 2

(***************************************************************************)
(* Characters and strings                                                  *)
(***************************************************************************)
LowerLetters ==
    <<"a","b","c","d","e","f","g","h","i","j","k","l","m",
      "n","o","p","q","r","s","t","u","v","w","x","y","z">>

UpperLetters ==
    <<"A","B","C","D","E","F","G","H","I","J","K","L","M",
      "N","O","P","Q","R","S","T","U","V","W","X","Y","Z">>

Digits == {"0","1","2","3","4","5","6","7","8","9"}

Range(s) == {s[i] : i \in DOMAIN s}

IsLower(c) == c \in Range(LowerLetters)

IsWhitespace(c) == c \in {" "}

\* String.prototype.toLowerCase, character by character
LowerChar(c) ==
    IF \E i \in DOMAIN UpperLetters : UpperLetters[i] = c
    THEN LowerLetters[CHOOSE i \in DOMAIN UpperLetters : UpperLetters[i] = c]
    ELSE c

toLowerCase(name) == [i \in DOMAIN name |-> LowerChar(name[i])]

\* name.trim().length === 0
TrimIsEmpty(name) == \A i \in DOMAIN name : IsWhitespace(name[i])

\* name.includes('__')
IncludesDoubleUnderscore(name) ==
    \E i \in 1..(Len(name) - 1) : name[i] = "_" /\ name[i + 1] = "_"

\* the character class [a-z0-9_]
IsWordChar(c) == IsLower(c) \/ c \in Digits \/ c = "_"

(***************************************************************************)
(* Names used by the specifications                                        *)
(***************************************************************************)
N_empty == <<>>
N_users == <<"u","s","e","r","s">>
N_posts == <<"p","o","s","t","s">>
N_tags == <<"t","a","g","s">>
N_id == <<"i","d">>
N_uid == <<"u","i","d">>
N_ref == <<"r","e","f">>
N_ghost == <<"g","o","n","e">>

(***************************************************************************)
(* JavaScript objects as insertion-ordered mappings                        *)
(***************************************************************************)
ObjHas(obj, k) == \E i \in DOMAIN obj : obj[i].key = k

\* obj[k] for a key that is present
ObjGet(obj, k) == obj[CHOOSE i \in DOMAIN obj : obj[i].key = k].val

\* obj[k] = v : a present key keeps its place and takes the new value
ObjSet(obj, k, v) ==
    IF ObjHas(obj, k)
    THEN [i \in DOMAIN obj |-> IF obj[i].key = k THEN [key |-> k, val |-> v] ELSE obj[i]]
    ELSE Append(obj, [key |-> k, val |-> v])

\* Map.prototype.get : <<>> is undefined, <<v>> is the value found
MapGet(map, k) == IF ObjHas(map, k) THEN <<ObjGet(map, k)>> ELSE <<>>

\* JavaScript truthiness of a string: the empty string is falsy
TruthyName(name) == name # <<>>

TruthyType(type) == type # ""

\* the optional `default` of a column: absent, or {kind, value}
NoDefault == <<>>

DefaultOf(kind, value) == <<[kind |-> kind, value |-> value]>>

(***************************************************************************)
(* Normalizer (schemaNormalizer.ts)                                        *)
(***************************************************************************)
\* the (table, column) pairs in the order of the nested for-of loops
RECURSIVE ColumnPairs(_)
ColumnPairs(tbls) ==
    IF tbls = <<>> THEN <<>>
    ELSE [j \in 1..Len(Head(tbls).columns) |->
              [table |-> Head(tbls), column |-> Head(tbls).columns[j]]]
         \o ColumnPairs(Tail(tbls))

\* tableNameMap after the first n tables: table.id -> table.name
RECURSIVE TableNameMap(_, _)
TableNameMap(tbls, n) ==
    IF n = 0 THEN <<>>
    ELSE ObjSet(TableNameMap(tbls, n - 1), tbls[n].id, tbls[n].name)

\* columnNameMap after the first n (table, column) pairs:
\* `${table.id}::${column.id}` -> {tableId, columnName}
RECURSIVE ColumnNameMap(_, _)
ColumnNameMap(pairs, n) ==
    IF n = 0 THEN <<>>
    ELSE ObjSet(ColumnNameMap(pairs, n - 1),
                <<pairs[n].table.id, pairs[n].column.id>>,
                [tableId |-> pairs[n].table.id, columnName |-> pairs[n].column.name])

\* One relation of the loop over relations: skipped when a reference is missing;
\* !sourceTableName is true for undefined and for the empty string alike
RelationSurvives(tableNameMap, columnNameMap, rel) ==
    LET sourceTableName == MapGet(tableNameMap, rel.fromTableId)
        sourceColumnInfo == MapGet(columnNameMap, <<rel.fromTableId, rel.fromColumnId>>)
        targetTableName == MapGet(tableNameMap, rel.toTableId)
        targetColumnInfo == MapGet(columnNameMap, <<rel.toTableId, rel.toColumnId>>)
    IN  ~ (sourceTableName = <<>> \/ ~TruthyName(sourceTableName[1])
           \/ sourceColumnInfo = <<>>
           \/ targetTableName = <<>> \/ ~TruthyName(targetTableName[1])
           \/ targetColumnInfo = <<>>)

\* foreignKeyMap after the first n relations:
\* `${toTableId}::${toColumnId}` -> {table: source name, column: source column name}
RECURSIVE ForeignKeyMap(_, _, _, _)
ForeignKeyMap(tableNameMap, columnNameMap, rels, n) ==
    IF n = 0 THEN <<>>
    ELSE LET prev == ForeignKeyMap(tableNameMap, columnNameMap, rels, n - 1)
             rel == rels[n]
         IN  IF RelationSurvives(tableNameMap, columnNameMap, rel)
             THEN ObjSet(prev, <<rel.toTableId, rel.toColumnId>>,
                         [table |-> ObjGet(tableNameMap, rel.fromTableId),
                          column |-> ObjGet(columnNameMap,
                                            <<rel.fromTableId, rel.fromColumnId>>).columnName])
             ELSE prev

\* variant: the default is not passed through
NormalizedColumnDropsDefault(foreignKeyMap, table, column) ==
    [name |-> column.name,
     type |-> column.type,
     primaryKey |-> column.primaryKey,
     nullable |-> column.nullable,
     unique |-> column.unique,
     foreignKey |-> MapGet(foreignKeyMap, <<table.id, column.id>>),
     default |-> NoDefault]

\* the canonical column built for one editor column
NormalizedColumn(foreignKeyMap, table, column) ==
    [name |-> column.name,
     type |-> column.type,
     primaryKey |-> column.primaryKey,
     nullable |-> column.nullable,
     unique |-> column.unique,
     foreignKey |-> MapGet(foreignKeyMap, <<table.id, column.id>>),
     default |-> column.default]

\* `columns` after the first n columns of the table: columns[column.name] = ...
RECURSIVE NormalizedColumns(_, _, _)
NormalizedColumns(foreignKeyMap, table, n) ==
    IF n = 0 THEN <<>>
    ELSE ObjSet(NormalizedColumns(foreignKeyMap, table, n - 1),
                table.columns[n].name,
                NormalizedColumn(foreignKeyMap, table, table.columns[n]))

\* variant: a name already present keeps its first table
NormalizedTablesFirstWins(foreignKeyMap, tbls, n, prev) ==
    IF ObjHas(prev, tbls[n].name) THEN prev
    ELSE Append(prev, [key |-> tbls[n].name,
                       val |-> [name |-> tbls[n].name,
                                columns |-> NormalizedColumns(foreignKeyMap, tbls[n],
                                                              Len(tbls[n].columns))]])

\* one step of the loop over tables: normalizedTables[tableName] = {name, columns}
NormalizedTablesStep(foreignKeyMap, tbls, n, prev) ==
    ObjSet(prev, tbls[n].name,
           [name |-> tbls[n].name,
            columns |-> NormalizedColumns(foreignKeyMap, tbls[n], Len(tbls[n].columns))])

\* `normalizedTables` after the first n tables
RECURSIVE NormalizedTables(_, _, _)
NormalizedTables(foreignKeyMap, tbls, n) ==
    IF n = 0 THEN <<>>
    ELSE NormalizedTablesStep(foreignKeyMap, tbls, n,
                              NormalizedTables(foreignKeyMap, tbls, n - 1))

\* normalizeSchema(tables, relations), called without positions as the store does
normalizeSchema(tbls, rels) ==
    LET tableNameMap == TableNameMap(tbls, Len(tbls))
        pairs == ColumnPairs(tbls)
        columnNameMap == ColumnNameMap(pairs, Len(pairs))
        foreignKeyMap == ForeignKeyMap(tableNameMap, columnNameMap, rels, Len(rels))
    IN  [tables |-> NormalizedTables(foreignKeyMap, tbls, Len(tbls))]


(***************************************************************************)
(* Denormalizer (schemaDenormalizer.ts)                                    *)
(***************************************************************************)
\* columnMap after the first n column entries: columnName -> columnId, the
\* columns of a table taking the ids first+1, first+2, ... in entry order
RECURSIVE DenormColumnMap(_, _, _)
DenormColumnMap(colEntries, first, n) ==
    IF n = 0 THEN <<>>
    ELSE ObjSet(DenormColumnMap(colEntries, first, n - 1), colEntries[n].key, first + n)

\* the editor column made of one canonical column
DenormColumn(column, columnId) ==
    [id |-> columnId,
     name |-> column.name,
     type |-> column.type,
     primaryKey |-> column.primaryKey,
     nullable |-> column.nullable,
     unique |-> column.unique,
     default |-> column.default]

\* Step 1: per table entry, the table pushed and its tableMap entry; the
\* table takes the id `first`, the next table starts after this table's columns
RECURSIVE DenormTables(_, _)
DenormTables(tblEntries, first) ==
    IF tblEntries = <<>> THEN <<>>
    ELSE LET e == Head(tblEntries)
             cols == e.val.columns
         IN  <<[key |-> e.key,
                table |-> [id |-> first,
                           name |-> e.val.name,
                           columns |-> [j \in 1..Len(cols) |->
                                            DenormColumn(cols[j].val, first + j)]],
                info |-> [tableId |-> first,
                          columnMap |-> DenormColumnMap(cols, first, Len(cols))]]>>
             \o DenormTables(Tail(tblEntries), first + Len(cols) + 1)

\* tableMap after the first n tables: tableName -> {tableId, columnMap}
RECURSIVE DenormTableMap(_, _)
DenormTableMap(made, n) ==
    IF n = 0 THEN <<>>
    ELSE ObjSet(DenormTableMap(made, n - 1), made[n].key, made[n].info)

\* the (table entry, column entry) pairs of step 2, in loop order
RECURSIVE EntryPairs(_)
EntryPairs(tblEntries) ==
    IF tblEntries = <<>> THEN <<>>
    ELSE [j \in 1..Len(Head(tblEntries).val.columns) |->
              [tableName |-> Head(tblEntries).key,
               columnName |-> Head(tblEntries).val.columns[j].key,
               column |-> Head(tblEntries).val.columns[j].val]]
         \o EntryPairs(Tail(tblEntries))

\* variant: the edge keeps the canonical direction: from the referencing column
DenormRelationStepNotInverted(tableMap, pair, prev, nextId) ==
    IF pair.column.foreignKey = <<>> THEN prev
    ELSE LET fk == pair.column.foreignKey[1]
             pkTableInfo == MapGet(tableMap, fk.table)
         IN  IF pkTableInfo = <<>> THEN prev
             ELSE LET fkColumnId == MapGet(ObjGet(tableMap, pair.tableName).columnMap,
                                           pair.columnName)
                      pkColumnId == MapGet(pkTableInfo[1].columnMap, fk.column)
                  IN  IF fkColumnId # <<>> /\ pkColumnId # <<>>
                      THEN Append(prev, [id |-> nextId + Len(prev),
                                         fromTableId |-> ObjGet(tableMap, pair.tableName).tableId,
                                         fromColumnId |-> fkColumnId[1],
                                         toTableId |-> pkTableInfo[1].tableId,
                                         toColumnId |-> pkColumnId[1]])
                      ELSE prev

\* Step 2, one column: the relations pushed so far, `prev`, and one more when
\* the column's foreignKey resolves in the id maps
DenormRelationStep(tableMap, pair, prev, nextId) ==
    IF pair.column.foreignKey = <<>> THEN prev
    ELSE LET fk == pair.column.foreignKey[1]
             pkTableInfo == MapGet(tableMap, fk.table)
         IN  IF pkTableInfo = <<>> THEN prev
             ELSE LET fkColumnId == MapGet(ObjGet(tableMap, pair.tableName).columnMap,
                                           pair.columnName)
                      pkColumnId == MapGet(pkTableInfo[1].columnMap, fk.column)
                  IN  IF fkColumnId # <<>> /\ pkColumnId # <<>>
                      THEN Append(prev, [id |-> nextId + Len(prev),
                                         fromTableId |-> pkTableInfo[1].tableId,
                                         fromColumnId |-> pkColumnId[1],
                                         toTableId |-> ObjGet(tableMap, pair.tableName).tableId,
                                         toColumnId |-> fkColumnId[1]])
                      ELSE prev

\* `relations` after the first n (table, column) pairs
RECURSIVE DenormRelations(_, _, _, _)
DenormRelations(tableMap, pairs, n, nextId) ==
    IF n = 0 THEN <<>>
    ELSE DenormRelationStep(tableMap, pairs[n],
                            DenormRelations(tableMap, pairs, n - 1, nextId), nextId)

\* the number of ids step 1 draws: one per table and one per column
RECURSIVE IdsDrawn(_)
IdsDrawn(tblEntries) ==
    IF tblEntries = <<>> THEN 0
    ELSE 1 + Len(Head(tblEntries).val.columns) + IdsDrawn(Tail(tblEntries))

\* denormalizeSchema(schema); `first` is the first identifier randomUUID gives
denormalizeSchema(sch, first) ==
    LET made == DenormTables(sch.tables, first)
        tableMap == DenormTableMap(made, Len(made))
        pairs == EntryPairs(sch.tables)
    IN  [tables |-> [i \in DOMAIN made |-> made[i].table],
         relations |-> DenormRelations(tableMap, pairs, Len(pairs),
                                       first + IdsDrawn(sch.tables))]


(***************************************************************************)
(* Validator (schemaValidator.ts)                                          *)
(*                                                                         *)
(* A ValidationError is [code, table, column]; `column` is <<>> when the   *)
(* error has no column.  The message, a text derived from the same names,  *)
(* is left out.                                                            *)
(***************************************************************************)
RESERVED_KEYWORDS ==
    {<<"u","s","e","r">>, <<"o","r","d","e","r">>, <<"s","e","l","e","c","t">>,
     <<"t","a","b","l","e">>, <<"g","r","o","u","p">>, <<"w","h","e","r","e">>,
     <<"i","n","d","e","x">>}

\* /^[a-z][a-z0-9_]*$|^_[a-z0-9_]+$/ and no '__'
isSnakeCase(name) ==
    /\ ~(~TruthyName(name) \/ TrimIsEmpty(name))
    /\ \/ /\ IsLower(name[1])
          /\ \A i \in 2..Len(name) : IsWordChar(name[i])
       \/ /\ name[1] = "_"
          /\ Len(name) >= 2
          /\ \A i \in 2..Len(name) : IsWordChar(name[i])
    /\ ~IncludesDoubleUnderscore(name)

isReservedKeyword(name) == toLowerCase(name) \in RESERVED_KEYWORDS

TableError(code, tableName) == [code |-> code, table |-> tableName, column |-> <<>>]

ColumnError(code, tableName, columnName) ==
    [code |-> code, table |-> tableName, column |-> <<columnName>>]

\* errors.push(e) under a condition
PushIf(cond, errors, e) == IF cond THEN Append(errors, e) ELSE errors

\* validateTables after the first n tables: the errors pushed and seenTableNames
RECURSIVE ValidateTablesLoop(_, _, _)
ValidateTablesLoop(sch, n, errors) ==
    IF n = 0 THEN [errors |-> errors, seen |-> {}]
    ELSE LET prev == ValidateTablesLoop(sch, n - 1, errors)
             tableName == sch.tables[n].key
             table == sch.tables[n].val
             e1 == PushIf(~TruthyName(table.name) \/ TrimIsEmpty(table.name),
                          prev.errors, TableError("TABLE_EMPTY_NAME", tableName))
             e2 == PushIf(TruthyName(table.name) /\ ~isSnakeCase(table.name),
                          e1, TableError("TABLE_NOT_SNAKE_CASE", tableName))
             e3 == PushIf(TruthyName(table.name) /\ isReservedKeyword(table.name),
                          e2, TableError("TABLE_RESERVED_KEYWORD", tableName))
             e4 == PushIf(TruthyName(table.name) /\ toLowerCase(table.name) \in prev.seen,
                          e3, TableError("TABLE_DUPLICATE", tableName))
             e5 == PushIf(Len(table.columns) = 0,
                          e4, TableError("TABLE_NO_COLUMNS", tableName))
         IN  [errors |-> e5,
              seen |-> IF TruthyName(table.name)
                       THEN prev.seen \cup {toLowerCase(table.name)} ELSE prev.seen]

validateTables(sch, errors) == ValidateTablesLoop(sch, Len(sch.tables), errors).errors

\* the inner loop of validateColumns after the first n columns of a table
RECURSIVE ValidateColumnsInner(_, _, _, _)
ValidateColumnsInner(tableName, table, n, errors) ==
    IF n = 0 THEN [errors |-> errors, seen |-> {}, primaryKeys |-> <<>>]
    ELSE LET prev == ValidateColumnsInner(tableName, table, n - 1, errors)
             columnName == table.columns[n].key
             column == table.columns[n].val
             e1 == PushIf(~TruthyName(column.name) \/ TrimIsEmpty(column.name),
                          prev.errors, ColumnError("COLUMN_EMPTY_NAME", tableName, columnName))
             e2 == PushIf(TruthyName(column.name) /\ ~isSnakeCase(column.name),
                          e1, ColumnError("COLUMN_NOT_SNAKE_CASE", tableName, columnName))
             e3 == PushIf(TruthyName(column.name) /\ toLowerCase(column.name) \in prev.seen,
                          e2, ColumnError("COLUMN_DUPLICATE", tableName, columnName))
             e4 == PushIf(~TruthyType(column.type) \/ column.type = " ",
                          e3, ColumnError("COLUMN_NO_TYPE", tableName, columnName))
         IN  [errors |-> e4,
              seen |-> IF TruthyName(column.name)
                       THEN prev.seen \cup {toLowerCase(column.name)} ELSE prev.seen,
              primaryKeys |-> IF column.primaryKey
                              THEN Append(prev.primaryKeys, columnName)
                              ELSE prev.primaryKeys]

\* COLUMN_MULTIPLE_PK for primaryKeys[i], i = 1 .. length-1 (0-based): every
\* primary key after the first
RECURSIVE MultiplePkErrors(_, _, _, _)
MultiplePkErrors(tableName, primaryKeys, n, errors) ==
    IF n <= 1 THEN errors
    ELSE Append(MultiplePkErrors(tableName, primaryKeys, n - 1, errors),
                ColumnError("COLUMN_MULTIPLE_PK", tableName, primaryKeys[n]))

\* one table of validateColumns
ValidateColumnsOfTable(tableName, table, errors) ==
    LET inner == ValidateColumnsInner(tableName, table, Len(table.columns), errors)
    IN  IF Len(inner.primaryKeys) > 1
        THEN MultiplePkErrors(tableName, inner.primaryKeys, Len(inner.primaryKeys),
                              inner.errors)
        ELSE inner.errors

RECURSIVE ValidateColumnsLoop(_, _, _)
ValidateColumnsLoop(sch, n, errors) ==
    IF n = 0 THEN errors
    ELSE ValidateColumnsOfTable(sch.tables[n].key, sch.tables[n].val,
                                ValidateColumnsLoop(sch, n - 1, errors))

validateColumns(sch, errors) == ValidateColumnsLoop(sch, Len(sch.tables), errors)

\* variant: the type check is skipped when the referenced column is no primary key
ValidateForeignKeyElseIf(sch, tableName, columnName, column, errors) ==
    IF column.foreignKey = <<>> THEN errors
    ELSE LET fk == column.foreignKey[1]
         IN  IF ~ObjHas(sch.tables, fk.table)
             THEN Append(errors, ColumnError("FK_TABLE_NOT_FOUND", tableName, columnName))
             ELSE IF ~ObjHas(ObjGet(sch.tables, fk.table).columns, fk.column)
             THEN Append(errors, ColumnError("FK_COLUMN_NOT_FOUND", tableName, columnName))
             ELSE LET referencedColumn == ObjGet(ObjGet(sch.tables, fk.table).columns,
                                                 fk.column)
                  IN  IF ~referencedColumn.primaryKey
                      THEN Append(errors,
                                  ColumnError("FK_NOT_PRIMARY_KEY", tableName, columnName))
                      ELSE PushIf(/\ TruthyType(column.type)
                                  /\ TruthyType(referencedColumn.type)
                                  /\ column.type # referencedColumn.type,
                                  errors,
                                  ColumnError("FK_TYPE_MISMATCH", tableName, columnName))

\* validateForeignKeys, one column
ValidateForeignKey(sch, tableName, columnName, column, errors) ==
    IF column.foreignKey = <<>> THEN errors
    ELSE LET fk == column.foreignKey[1]
         IN  IF ~ObjHas(sch.tables, fk.table)
             THEN Append(errors, ColumnError("FK_TABLE_NOT_FOUND", tableName, columnName))
             ELSE IF ~ObjHas(ObjGet(sch.tables, fk.table).columns, fk.column)
             THEN Append(errors, ColumnError("FK_COLUMN_NOT_FOUND", tableName, columnName))
             ELSE LET referencedColumn == ObjGet(ObjGet(sch.tables, fk.table).columns,
                                                 fk.column)
                      e1 == PushIf(~referencedColumn.primaryKey, errors,
                                   ColumnError("FK_NOT_PRIMARY_KEY", tableName, columnName))
                  IN  PushIf(/\ TruthyType(column.type)
                             /\ TruthyType(referencedColumn.type)
                             /\ column.type # referencedColumn.type,
                             e1,
                             ColumnError("FK_TYPE_MISMATCH", tableName, columnName))

RECURSIVE ValidateForeignKeysLoop(_, _, _, _)
ValidateForeignKeysLoop(sch, pairs, n, errors) ==
    IF n = 0 THEN errors
    ELSE ValidateForeignKey(sch, pairs[n].tableName, pairs[n].columnName, pairs[n].column,
                            ValidateForeignKeysLoop(sch, pairs, n - 1, errors))

validateForeignKeys(sch, errors) ==
    ValidateForeignKeysLoop(sch, EntryPairs(sch.tables), Len(EntryPairs(sch.tables)), errors)

\* variant: the autoincrement checks chained with else-if
ValidateDefaultElseIf(tableName, columnName, column, prev) ==
    IF column.default = NoDefault THEN prev
    ELSE LET defaultKind == column.default[1].kind
             isAuto == defaultKind = "autoincrement"
             e1 == PushIf(isAuto /\ Len(prev.autoincrementColumns) > 0,
                          prev.errors,
                          ColumnError("COLUMN_MULTIPLE_AUTOINCREMENT", tableName, columnName))
             e2 == PushIf(isAuto /\ column.type # "int", e1,
                          ColumnError("COLUMN_AUTOINCREMENT_NOT_INT", tableName, columnName))
             e3 == PushIf(isAuto /\ column.type = "int" /\ ~column.primaryKey, e2,
                          ColumnError("COLUMN_AUTOINCREMENT_NOT_PK", tableName, columnName))
             e4 == PushIf(defaultKind = "uuid" /\ column.type = "int", e3,
                          ColumnError("COLUMN_UUID_ON_INT", tableName, columnName))
             e5 == PushIf(defaultKind = "now" /\ column.type # "timestamp", e4,
                          ColumnError("COLUMN_NOW_NOT_TIMESTAMP", tableName, columnName))
         IN  [errors |-> e5,
              autoincrementColumns |->
                  IF isAuto THEN Append(prev.autoincrementColumns, columnName)
                  ELSE prev.autoincrementColumns]

\* validateDefaults, one column: `prev` holds the errors pushed so far and the
\* table's autoincrementColumns
ValidateDefault(tableName, columnName, column, prev) ==
    IF column.default = NoDefault THEN prev
    ELSE LET defaultKind == column.default[1].kind
             isAuto == defaultKind = "autoincrement"
             e1 == PushIf(isAuto /\ Len(prev.autoincrementColumns) > 0,
                          prev.errors,
                          ColumnError("COLUMN_MULTIPLE_AUTOINCREMENT", tableName, columnName))
             e2 == PushIf(isAuto /\ column.type # "int", e1,
                          ColumnError("COLUMN_AUTOINCREMENT_NOT_INT", tableName, columnName))
             e3 == PushIf(isAuto /\ ~column.primaryKey, e2,
                          ColumnError("COLUMN_AUTOINCREMENT_NOT_PK", tableName, columnName))
             e4 == PushIf(defaultKind = "uuid" /\ column.type = "int", e3,
                          ColumnError("COLUMN_UUID_ON_INT", tableName, columnName))
             e5 == PushIf(defaultKind = "now" /\ column.type # "timestamp", e4,
                          ColumnError("COLUMN_NOW_NOT_TIMESTAMP", tableName, columnName))
         IN  [errors |-> e5,
              autoincrementColumns |->
                  IF isAuto THEN Append(prev.autoincrementColumns, columnName)
                  ELSE prev.autoincrementColumns]

\* validateDefaults, the inner loop after the first n columns of a table
RECURSIVE ValidateDefaultsInner(_, _, _, _)
ValidateDefaultsInner(tableName, table, n, errors) ==
    IF n = 0 THEN [errors |-> errors, autoincrementColumns |-> <<>>]
    ELSE ValidateDefault(tableName, table.columns[n].key, table.columns[n].val,
                         ValidateDefaultsInner(tableName, table, n - 1, errors))

RECURSIVE ValidateDefaultsLoop(_, _, _)
ValidateDefaultsLoop(sch, n, errors) ==
    IF n = 0 THEN errors
    ELSE ValidateDefaultsInner(sch.tables[n].key, sch.tables[n].val,
                               Len(sch.tables[n].val.columns),
                               ValidateDefaultsLoop(sch, n - 1, errors)).errors

validateDefaults(sch, errors) == ValidateDefaultsLoop(sch, Len(sch.tables), errors)

\* variant: the later groups run only while no error has been found
validateSchemaStopsAtFirstGroup(sch) ==
    LET e1 == validateTables(sch, <<>>)
        e2 == IF e1 # <<>> THEN e1 ELSE validateColumns(sch, e1)
        e3 == IF e2 # <<>> THEN e2 ELSE validateForeignKeys(sch, e2)
        e4 == IF e3 # <<>> THEN e3 ELSE validateDefaults(sch, e3)
    IN  [valid |-> Len(e4) = 0, errors |-> e4]

\* validateSchema: one array handed to the four rule groups in turn
validateSchema(sch) ==
    LET e1 == validateTables(sch, <<>>)
        e2 == validateColumns(sch, e1)
        e3 == validateForeignKeys(sch, e2)
        e4 == validateDefaults(sch, e3)
    IN  [valid |-> Len(e4) = 0, errors |-> e4]

(***************************************************************************)
(* Generation Guard (generatorValidator.ts)                                *)
(*                                                                         *)
(* A violation is [kind, table, column, refTable, refColumn], the names    *)
(* its message is made of; kind tells the four message templates apart.    *)
(***************************************************************************)
\* pkColumns: tableName -> the set of its primary-key column names
PkColumns(sch) ==
    [i \in DOMAIN sch.tables |->
        [key |-> sch.tables[i].key,
         val |-> {sch.tables[i].val.columns[j].key :
                     j \in {j \in DOMAIN sch.tables[i].val.columns :
                               sch.tables[i].val.columns[j].val.primaryKey}}]]

Violation(kind, tableName, columnName, fk) ==
    [kind |-> kind, table |-> tableName, column |-> columnName,
     refTable |-> fk.table, refColumn |-> fk.column]

\* variant: a foreignKey on a primary-key column is accepted
GuardColumnAllowsKey(sch, pkColumns, tableName, columnName, column, errors) ==
    IF column.foreignKey = <<>> THEN errors
    ELSE LET fk == column.foreignKey[1]
         IN  IF ~ObjHas(sch.tables, fk.table)
             THEN Append(errors, Violation("FK_TABLE_MISSING", tableName, columnName, fk))
             ELSE IF ~ObjHas(ObjGet(sch.tables, fk.table).columns, fk.column)
             THEN Append(errors, Violation("FK_COLUMN_MISSING", tableName, columnName, fk))
             ELSE PushIf(~ObjHas(pkColumns, fk.table)
                         \/ fk.column \notin ObjGet(pkColumns, fk.table),
                         errors, Violation("FK_NOT_PK", tableName, columnName, fk))

\* variant: an existing target column is accepted whether primary key or not
GuardColumnAnyTarget(sch, pkColumns, tableName, columnName, column, errors) ==
    IF column.foreignKey = <<>> THEN errors
    ELSE LET fk == column.foreignKey[1]
             e1 == PushIf(column.primaryKey, errors,
                          Violation("PK_WITH_FK", tableName, columnName, fk))
         IN  IF ~ObjHas(sch.tables, fk.table)
             THEN Append(e1, Violation("FK_TABLE_MISSING", tableName, columnName, fk))
             ELSE IF ~ObjHas(ObjGet(sch.tables, fk.table).columns, fk.column)
             THEN Append(e1, Violation("FK_COLUMN_MISSING", tableName, columnName, fk))
             ELSE e1

\* variant: the first violation found ends the collection
GuardColumnFirstOnly(sch, pkColumns, tableName, columnName, column, errors) ==
    IF column.foreignKey = <<>> \/ errors # <<>> THEN errors
    ELSE LET fk == column.foreignKey[1]
             e1 == PushIf(column.primaryKey, errors,
                          Violation("PK_WITH_FK", tableName, columnName, fk))
         IN  IF ~ObjHas(sch.tables, fk.table)
             THEN Append(e1, Violation("FK_TABLE_MISSING", tableName, columnName, fk))
             ELSE IF ~ObjHas(ObjGet(sch.tables, fk.table).columns, fk.column)
             THEN Append(e1, Violation("FK_COLUMN_MISSING", tableName, columnName, fk))
             ELSE PushIf(~ObjHas(pkColumns, fk.table)
                         \/ fk.column \notin ObjGet(pkColumns, fk.table),
                         e1, Violation("FK_NOT_PK", tableName, columnName, fk))

\* validateForeignKeys of the guard, one column
GuardColumn(sch, pkColumns, tableName, columnName, column, errors) ==
    IF column.foreignKey = <<>> THEN errors
    ELSE LET fk == column.foreignKey[1]
             e1 == PushIf(column.primaryKey, errors,
                          Violation("PK_WITH_FK", tableName, columnName, fk))
         IN  IF ~ObjHas(sch.tables, fk.table)
             THEN Append(e1, Violation("FK_TABLE_MISSING", tableName, columnName, fk))
             ELSE IF ~ObjHas(ObjGet(sch.tables, fk.table).columns, fk.column)
             THEN Append(e1, Violation("FK_COLUMN_MISSING", tableName, columnName, fk))
             ELSE PushIf(~ObjHas(pkColumns, fk.table)
                         \/ fk.column \notin ObjGet(pkColumns, fk.table),
                         e1, Violation("FK_NOT_PK", tableName, columnName, fk))

RECURSIVE GuardLoop(_, _, _, _)
GuardLoop(sch, pkColumns, pairs, n) ==
    IF n = 0 THEN <<>>
    ELSE GuardColumn(sch, pkColumns, pairs[n].tableName, pairs[n].columnName,
                     pairs[n].column, GuardLoop(sch, pkColumns, pairs, n - 1))

\* the guard's outcome: returns, or throws one GeneratorValidationError whose
\* message gives the count and, per violation, `${i + 1}. ${err}` for the
\* 0-based position i
validateForeignKeysForGeneration(sch) ==
    LET pairs == EntryPairs(sch.tables)
        errors == GuardLoop(sch, PkColumns(sch), pairs, Len(pairs))
    IN  IF Len(errors) > 0
        THEN [threw |-> TRUE,
              count |-> Len(errors),
              lines |-> [k \in DOMAIN errors |-> [index |-> (k - 1) + 1, err |-> errors[k]]]]
        ELSE [threw |-> FALSE, count |-> 0, lines |-> <<>>]

validateSchemaForGeneration(sch) == validateForeignKeysForGeneration(sch)

(***************************************************************************)
(* The SQL generator (lib/sql/postgresGenerator)                           *)
(*                                                                         *)
(* The repository holds two copies of each generator.  Copy "A" gives a    *)
(* table with several primary-key columns a table-level PRIMARY KEY        *)
(* clause; copy "B" marks every primary-key column inline.  A text is      *)
(* modelled by its structure: a list of statements, each a table name and  *)
(* the list of its definitions, a definition being a column clause (the    *)
(* column name and the parts joined by spaces), a PRIMARY KEY clause or a  *)
(* FOREIGN KEY clause.                                                      *)
(***************************************************************************)
GeneratorCopies == {"A", "B"}

\* schemaType.toLowerCase() and schemaType.toUpperCase() on the type names
TypeToLowerCase(type) ==
    CASE type = "Int" -> "int"
      [] type = "JSON" -> "json"
      [] OTHER -> type

TypeToUpperCase(type) ==
    CASE type = "int" -> "INT"
      [] type = "Int" -> "INT"
      [] type = "varchar" -> "VARCHAR"
      [] type = "text" -> "TEXT"
      [] type = "boolean" -> "BOOLEAN"
      [] type = "timestamp" -> "TIMESTAMP"
      [] type = "uuid" -> "UUID"
      [] type = "json" -> "JSON"
      [] OTHER -> type

PostgresTypeMap ==
    <<[key |-> "int", val |-> "INT"], [key |-> "varchar", val |-> "VARCHAR"],
      [key |-> "text", val |-> "TEXT"], [key |-> "boolean", val |-> "BOOLEAN"],
      [key |-> "timestamp", val |-> "TIMESTAMP"], [key |-> "uuid", val |-> "UUID"]>>

mapTypeToPostgres(schemaType) ==
    LET found == MapGet(PostgresTypeMap, TypeToLowerCase(schemaType))
    IN  IF found # <<>> THEN found[1] ELSE TypeToUpperCase(schemaType)

\* the literal between single quotes, every single quote doubled
escapeSQLValue(value) ==
    CASE value = "x" -> "'x'"
      [] value = "it's" -> "'it''s'"
      [] OTHER -> "''"

\* the parts of generateColumnDefinition, before parts.join(' ')
ColumnDefinitionParts(copy, column) ==
    LET kind == IF column.default = <<>> THEN "" ELSE column.default[1].kind
        p1 == IF kind = "autoincrement" THEN <<"SERIAL">>
              ELSE <<mapTypeToPostgres(column.type)>>
        p2 == IF kind = "uuid" THEN Append(p1, "DEFAULT gen_random_uuid()")
              ELSE IF kind = "now" THEN Append(p1, "DEFAULT now()")
              ELSE IF kind = "value"
              THEN p1 \o <<"DEFAULT", escapeSQLValue(column.default[1].value)>>
              ELSE p1
        p3 == PushIf(column.unique, p2, "UNIQUE")
        p4 == PushIf(~column.nullable, p3, "NOT NULL")
    IN  PushIf(copy = "B" /\ column.primaryKey, p4, "PRIMARY KEY")

generateColumnDefinition(copy, column) ==
    [kind |-> "column", column |-> column.name, parts |-> ColumnDefinitionParts(copy, column)]

\* deps of one table: a Set, iterated in insertion order
RECURSIVE TableDependencies(_, _)
TableDependencies(colEntries, n) ==
    IF n = 0 THEN <<>>
    ELSE LET deps == TableDependencies(colEntries, n - 1)
             column == colEntries[n].val
         IN  IF column.foreignKey # <<>> /\ column.foreignKey[1].table \notin Range(deps)
             THEN Append(deps, column.foreignKey[1].table)
             ELSE deps

Dependencies(sch, tableName) ==
    LET colEntries == ObjGet(sch.tables, tableName).columns
    IN  TableDependencies(colEntries, Len(colEntries))

\* visit(tableName) of orderTables and its loop over deps from position i,
\* on st = [ordered, visited, visiting]
RECURSIVE visit(_, _, _), VisitDeps(_, _, _, _)
visit(sch, tableName, st) ==
    IF tableName \in st.visiting THEN st
    ELSE IF tableName \in st.visited THEN st
    ELSE LET entered == [st EXCEPT !.visiting = @ \cup {tableName}]
             after == VisitDeps(sch, Dependencies(sch, tableName), 1, entered)
         IN  [ordered |-> Append(after.ordered, tableName),
              visited |-> after.visited \cup {tableName},
              visiting |-> after.visiting \ {tableName}]

VisitDeps(sch, deps, i, st) ==
    IF i > Len(deps) THEN st
    ELSE VisitDeps(sch, deps, i + 1,
                   IF ObjHas(sch.tables, deps[i]) THEN visit(sch, deps[i], st) ELSE st)

RECURSIVE VisitAll(_, _)
VisitAll(sch, n) ==
    IF n = 0 THEN [ordered |-> <<>>, visited |-> {}, visiting |-> {}]
    ELSE visit(sch, sch.tables[n].key, VisitAll(sch, n - 1))

orderTables(sch) == VisitAll(sch, Len(sch.tables)).ordered

\* pkColumns: the primary-key columns of a table, in column order
RECURSIVE PrimaryKeyNames(_, _)
PrimaryKeyNames(colEntries, n) ==
    IF n = 0 THEN <<>>
    ELSE PushIf(colEntries[n].val.primaryKey, PrimaryKeyNames(colEntries, n - 1),
                colEntries[n].val.name)

\* one column clause of generateTableSQL
TableColumnDef(copy, isCompositePK, column) ==
    LET def == generateColumnDefinition(copy, column)
    IN  IF copy = "A" /\ ~isCompositePK /\ column.primaryKey
        THEN [def EXCEPT !.parts = Append(@, "PRIMARY KEY")]
        ELSE def

\* variant: the clause constrains the column named as the referenced one
RECURSIVE FkConstraintsOnTarget(_, _)
FkConstraintsOnTarget(colEntries, n) ==
    IF n = 0 THEN <<>>
    ELSE LET column == colEntries[n].val
         IN  IF column.foreignKey # <<>> /\ ~column.primaryKey
             THEN Append(FkConstraintsOnTarget(colEntries, n - 1),
                         [kind |-> "foreignKey", column |-> column.foreignKey[1].column,
                          refTable |-> column.foreignKey[1].table,
                          refColumn |-> column.foreignKey[1].column])
             ELSE FkConstraintsOnTarget(colEntries, n - 1)

\* fkConstraints of generateTableSQL
RECURSIVE FkConstraints(_, _)
FkConstraints(colEntries, n) ==
    IF n = 0 THEN <<>>
    ELSE LET column == colEntries[n].val
         IN  IF column.foreignKey # <<>> /\ ~column.primaryKey
             THEN Append(FkConstraints(colEntries, n - 1),
                         [kind |-> "foreignKey", column |-> column.name,
                          refTable |-> column.foreignKey[1].table,
                          refColumn |-> column.foreignKey[1].column])
             ELSE FkConstraints(colEntries, n - 1)

\* CREATE TABLE name ( allDefinitions joined by ",\n" );
generateTableSQL(copy, tableName, table) ==
    LET colEntries == table.columns
        pkNames == PrimaryKeyNames(colEntries, Len(colEntries))
        isCompositePK == Len(pkNames) > 1
        columnDefs == [j \in DOMAIN colEntries |->
                          TableColumnDef(copy, isCompositePK, colEntries[j].val)]
        withPk == IF copy = "A" /\ isCompositePK
                  THEN Append(columnDefs, [kind |-> "primaryKey", columns |-> pkNames])
                  ELSE columnDefs
    IN  [name |-> table.name,
         definitions |-> withPk \o FkConstraints(colEntries, Len(colEntries))]

\* variant: the statements follow the order of the tables in the schema
StatementsInSchemaOrder(copy, sch) ==
    [k \in DOMAIN sch.tables |->
        generateTableSQL(copy, sch.tables[k].key, sch.tables[k].val)]

\* the statements of generatePostgresSQL, joined by a blank line
Statements(copy, sch) ==
    LET orderedTables == orderTables(sch)
    IN  [k \in DOMAIN orderedTables |->
            generateTableSQL(copy, orderedTables[k], ObjGet(sch.tables, orderedTables[k]))]

\* variant: the guard is not consulted
generatePostgresSQLUnguarded(copy, sch) ==
    [threw |-> FALSE, error |-> validateSchemaForGeneration(sch),
     text |-> Statements(copy, sch)]

\* generatePostgresSQL: the guard's error, or the text
generatePostgresSQL(copy, sch) ==
    LET guard == validateSchemaForGeneration(sch)
    IN  IF guard.threw
        THEN [threw |-> TRUE, error |-> guard, text |-> <<>>]
        ELSE [threw |-> FALSE, error |-> guard, text |-> Statements(copy, sch)]

(***************************************************************************)
(* The ORM generator (lib/prisma/prismaGenerator)                          *)
(*                                                                         *)
(* Copy "A" keeps words ending in ss, names the scalar field of a          *)
(* foreign-key column after the referenced model and knows composite       *)
(* keys; copy "B" does none of the three.  A text is the list of its model *)
(* blocks, each a model name, the list of its field lines, the table name  *)
(* of @@map and the field names of @@id.                                   *)
(***************************************************************************)
UpperChar(c) ==
    IF \E i \in DOMAIN LowerLetters : LowerLetters[i] = c
    THEN UpperLetters[CHOOSE i \in DOMAIN LowerLetters : LowerLetters[i] = c]
    ELSE c

\* name.split('_') of the first n characters
RECURSIVE SplitLoop(_, _)
SplitLoop(name, n) ==
    IF n = 0 THEN <<<<>>>>
    ELSE LET words == SplitLoop(name, n - 1)
         IN  IF name[n] = "_" THEN Append(words, <<>>)
             ELSE [words EXCEPT ![Len(words)] = Append(@, name[n])]

Split(name) == SplitLoop(name, Len(name))

\* words.join(sep) of the first n words
RECURSIVE JoinLoop(_, _, _)
JoinLoop(words, sep, n) ==
    IF n = 0 THEN <<>>
    ELSE IF n = 1 THEN words[1]
    ELSE JoinLoop(words, sep, n - 1) \o sep \o words[n]

Join(words, sep) == JoinLoop(words, sep, Len(words))

\* word.charAt(0).toUpperCase() + word.slice(1).toLowerCase()
Capitalize(word) ==
    IF word = <<>> THEN <<>> ELSE <<UpperChar(word[1])>> \o toLowerCase(Tail(word))

toPascalCase(name) ==
    LET words == Split(name)
    IN  Join([k \in DOMAIN words |-> Capitalize(words[k])], <<>>)

toCamelCase(name) ==
    LET pascal == toPascalCase(name)
    IN  IF pascal = <<>> THEN <<>> ELSE <<LowerChar(pascal[1])>> \o Tail(pascal)

endsWith(name, suffix) ==
    /\ Len(name) >= Len(suffix)
    /\ SubSeq(name, Len(name) - Len(suffix) + 1, Len(name)) = suffix

\* name.slice(0, -k)
SliceOff(name, k) == SubSeq(name, 1, Len(name) - k)

toSingular(copy, name) ==
    IF Len(name) <= 1 THEN name
    ELSE IF copy = "A" /\ endsWith(name, <<"s", "s">>) THEN name
    ELSE IF endsWith(name, <<"i", "e", "s">>) THEN Append(SliceOff(name, 3), "y")
    ELSE IF endsWith(name, <<"v", "e", "s">>) THEN Append(SliceOff(name, 3), "f")
    ELSE IF endsWith(name, <<"s", "e", "s">>) THEN SliceOff(name, 2)
    ELSE IF endsWith(name, <<"x", "e", "s">>) THEN SliceOff(name, 2)
    ELSE IF endsWith(name, <<"c", "h", "e", "s">>) THEN SliceOff(name, 2)
    ELSE IF endsWith(name, <<"s", "h", "e", "s">>) THEN SliceOff(name, 2)
    ELSE IF endsWith(name, <<"s">>) THEN SliceOff(name, 1)
    ELSE name

toModelName(copy, tableName) ==
    LET words == Split(tableName)
        singularWords == [k \in DOMAIN words |-> toSingular(copy, words[k])]
        singularTableName == Join(singularWords, <<"_">>)
    IN  toPascalCase(singularTableName)

toRelationName(copy, tableName) == toCamelCase(toSingular(copy, tableName))

toBackRelationName(tableName) == toCamelCase(tableName)

PrismaTypeMap ==
    <<[key |-> "int", val |-> "Int"], [key |-> "varchar", val |-> "String"],
      [key |-> "text", val |-> "String"], [key |-> "boolean", val |-> "Boolean"],
      [key |-> "timestamp", val |-> "DateTime"], [key |-> "uuid", val |-> "String"]>>

mapTypeToPrisma(schemaType) ==
    LET found == MapGet(PrismaTypeMap, TypeToLowerCase(schemaType))
    IN  IF found # <<>> THEN found[1] ELSE schemaType

\* the literal between double quotes, every double quote escaped
escapePrismaValue(value) ==
    CASE value = "x" -> "\"x\""
      [] value = "it's" -> "\"it's\""
      [] OTHER -> "\"\""

IdSuffix == <<"I", "d">>

\* the name of the scalar field of a column
ScalarFieldName(copy, column) ==
    IF copy = "A" /\ column.foreignKey # <<>>
    THEN toCamelCase(toModelName(copy, column.foreignKey[1].table)) \o IdSuffix
    ELSE toCamelCase(column.name)

generateScalarField(copy, column, isCompositePK) ==
    LET fieldName == ScalarFieldName(copy, column)
        kind == IF column.default = <<>> THEN "" ELSE column.default[1].kind
        a1 == PushIf(fieldName # column.name \/ (copy = "A" /\ column.foreignKey # <<>>),
                     <<>>, [attr |-> "@map", arg |-> column.name])
        a2 == PushIf(column.primaryKey /\ ~(copy = "A" /\ isCompositePK),
                     a1, [attr |-> "@id"])
        a3 == PushIf(column.unique, a2, [attr |-> "@unique"])
        a4 == IF kind = "autoincrement" THEN Append(a3, [attr |-> "@default(autoincrement())"])
              ELSE IF kind = "uuid" THEN Append(a3, [attr |-> "@default(uuid())"])
              ELSE IF kind = "now" THEN Append(a3, [attr |-> "@default(now())"])
              ELSE IF kind = "value"
              THEN Append(a3, [attr |-> "@default",
                               value |-> escapePrismaValue(column.default[1].value)])
              ELSE a3
    IN  [kind |-> "scalar", name |-> fieldName, type |-> mapTypeToPrisma(column.type),
         optional |-> column.nullable, attributes |-> a4]

generateRelationField(copy, column, referencedTableName, referencedColumnName) ==
    LET modelName == toModelName(copy, referencedTableName)
    IN  [kind |-> "relation",
         name |-> toRelationName(copy, referencedTableName),
         type |-> modelName,
         fields |-> IF copy = "A" THEN toCamelCase(modelName) \o IdSuffix
                    ELSE toCamelCase(column.name),
         references |-> IF copy = "A" THEN <<"i", "d">>
                        ELSE toCamelCase(referencedColumnName)]

generateBackRelationField(tableName, modelName) ==
    [kind |-> "backRelation", name |-> toBackRelationName(tableName), type |-> modelName]

\* variant: a referencing table is listed once per foreignKey column
RECURSIVE BuildRelationMapLoopAll(_, _)
BuildRelationMapLoopAll(pairs, n) ==
    IF n = 0 THEN <<>>
    ELSE LET relationMap == BuildRelationMapLoopAll(pairs, n - 1)
             column == pairs[n].column
         IN  IF column.foreignKey = <<>> THEN relationMap
             ELSE LET referencedTable == column.foreignKey[1].table
                      referencingTables ==
                          IF ObjHas(relationMap, referencedTable)
                          THEN ObjGet(relationMap, referencedTable) ELSE <<>>
                  IN  ObjSet(relationMap, referencedTable,
                             Append(referencingTables, pairs[n].tableName))

\* buildRelationMap after the first n columns of the schema
RECURSIVE BuildRelationMapLoop(_, _)
BuildRelationMapLoop(pairs, n) ==
    IF n = 0 THEN <<>>
    ELSE LET relationMap == BuildRelationMapLoop(pairs, n - 1)
             column == pairs[n].column
         IN  IF column.foreignKey = <<>> THEN relationMap
             ELSE LET referencedTable == column.foreignKey[1].table
                      referencingTables ==
                          IF ObjHas(relationMap, referencedTable)
                          THEN ObjGet(relationMap, referencedTable) ELSE <<>>
                  IN  ObjSet(relationMap, referencedTable,
                             IF pairs[n].tableName \in Range(referencingTables)
                             THEN referencingTables
                             ELSE Append(referencingTables, pairs[n].tableName))

buildRelationMap(sch) ==
    LET pairs == EntryPairs(sch.tables)
    IN  BuildRelationMapLoop(pairs, Len(pairs))

RECURSIVE RelationFields(_, _, _)
RelationFields(copy, colEntries, n) ==
    IF n = 0 THEN <<>>
    ELSE LET column == colEntries[n].val
         IN  IF column.foreignKey # <<>>
             THEN Append(RelationFields(copy, colEntries, n - 1),
                         generateRelationField(copy, column, column.foreignKey[1].table,
                                               column.foreignKey[1].column))
             ELSE RelationFields(copy, colEntries, n - 1)

generateModel(copy, tableName, table, relationMap) ==
    LET colEntries == table.columns
        pkNames == PrimaryKeyNames(colEntries, Len(colEntries))
        isCompositePK == Len(pkNames) > 1
        scalarFields == [j \in DOMAIN colEntries |->
                            generateScalarField(copy, colEntries[j].val, isCompositePK)]
        relationFields == RelationFields(copy, colEntries, Len(colEntries))
        referencingTables == IF ObjHas(relationMap, tableName)
                             THEN ObjGet(relationMap, tableName) ELSE <<>>
        backRelations == [k \in DOMAIN referencingTables |->
                             generateBackRelationField(referencingTables[k],
                                 toModelName(copy, referencingTables[k]))]
    IN  [name |-> toModelName(copy, tableName),
         fields |-> scalarFields \o relationFields \o backRelations,
         map |-> tableName,
         id |-> IF copy = "A" /\ isCompositePK
                THEN [k \in DOMAIN pkNames |-> toCamelCase(pkNames[k])]
                ELSE <<>>]

\* the UTF-16 order of the characters, which Array.prototype.sort compares
CharOrder ==
    <<" ", "-", "0","1","2","3","4","5","6","7","8","9">>
    \o UpperLetters \o <<"_">> \o LowerLetters

CharCode(c) == CHOOSE i \in DOMAIN CharOrder : CharOrder[i] = c

\* a < b as sort() compares two strings
RECURSIVE StringLess(_, _)
StringLess(a, b) ==
    IF b = <<>> THEN FALSE
    ELSE IF a = <<>> THEN TRUE
    ELSE IF Head(a) # Head(b) THEN CharCode(Head(a)) < CharCode(Head(b))
    ELSE StringLess(Tail(a), Tail(b))

\* keys with k inserted at its place
RECURSIVE InsertSorted(_, _)
InsertSorted(keys, k) ==
    IF keys = <<>> THEN <<k>>
    ELSE IF StringLess(k, Head(keys)) THEN <<k>> \o keys
    ELSE <<Head(keys)>> \o InsertSorted(Tail(keys), k)

\* variant: the table names are left in the order of the schema
RECURSIVE SortedKeysUnsorted(_, _)
SortedKeysUnsorted(tblEntries, n) ==
    IF n = 0 THEN <<>>
    ELSE Append(SortedKeysUnsorted(tblEntries, n - 1), tblEntries[n].key)

\* Object.keys(schema.tables).sort() of the first n tables
RECURSIVE SortedKeys(_, _)
SortedKeys(tblEntries, n) ==
    IF n = 0 THEN <<>>
    ELSE InsertSorted(SortedKeys(tblEntries, n - 1), tblEntries[n].key)

\* the models of generatePrismaSchema, joined by a blank line
Models(copy, sch) ==
    LET relationMap == buildRelationMap(sch)
        tableNames == SortedKeys(sch.tables, Len(sch.tables))
    IN  [k \in DOMAIN tableNames |->
            generateModel(copy, tableNames[k], ObjGet(sch.tables, tableNames[k]), relationMap)]

\* generatePrismaSchema: the guard's error, or the text
generatePrismaSchema(copy, sch) ==
    LET guard == validateSchemaForGeneration(sch)
    IN  IF guard.threw
        THEN [threw |-> TRUE, error |-> guard, text |-> <<>>]
        ELSE [threw |-> FALSE, error |-> guard, text |-> Models(copy, sch)]

(***************************************************************************)
(* Editor graphs drawn by Init                                             *)
(*                                                                         *)
(* A graph is a regular graph of n <= MaxTables tables of m <= MaxCols     *)
(* columns with distinct names, changed in at most one place (a table or   *)
(* column renamed, possibly onto a name in use or onto the empty name, or  *)
(* a column's type, flags and default replaced), with at most two          *)
(* relations whose endpoints are columns of the graph or, for the first    *)
(* relation, identifiers that no longer exist (an orphan).                 *)
(***************************************************************************)
TableNameList == <<N_users, N_posts, N_tags>>
ColNameList == <<N_id, N_uid, N_ref>>


\* the column made by the store's addColumn, apart from its name
PlainShape ==
    [type |-> "varchar", primaryKey |-> FALSE, nullable |-> FALSE, unique |-> FALSE,
     default |-> NoDefault]

KeyShape ==
    [type |-> "int", primaryKey |-> TRUE, nullable |-> FALSE, unique |-> FALSE,
     default |-> NoDefault]

\* the regular column j of table i: a key first, then plain columns; the
\* tables of even rank use other types, so that no two tables are alike
RegularShape(i, j) ==
    IF j = 1
    THEN [KeyShape EXCEPT !.type = IF i % 2 = 1 THEN "int" ELSE "uuid"]
    ELSE [PlainShape EXCEPT !.type = IF i % 2 = 1 THEN "varchar" ELSE "text"]

EditorShapes ==
    {[type |-> "int", primaryKey |-> TRUE, nullable |-> FALSE, unique |-> TRUE,
      default |-> DefaultOf("autoincrement", "")],
     [type |-> "timestamp", primaryKey |-> FALSE, nullable |-> TRUE, unique |-> FALSE,
      default |-> DefaultOf("now", "")],
     [type |-> "text", primaryKey |-> FALSE, nullable |-> TRUE, unique |-> TRUE,
      default |-> DefaultOf("value", "x")]}

TableIdOf(i) == i

\* an identifier no table, column or relation of the graph has
GhostId == TableIdOf(0)

ColumnIdOf(i, j) == MaxTables + (i - 1) * MaxCols + j
RelationIdOf(k) == MaxTables + MaxTables * MaxCols + k

EditorColumn(id, name, shape) ==
    [id |-> id, name |-> name, type |-> shape.type, primaryKey |-> shape.primaryKey,
     nullable |-> shape.nullable, unique |-> shape.unique, default |-> shape.default]

RegularTables(n, m) ==
    [i \in 1..n |->
        [id |-> TableIdOf(i),
         name |-> TableNameList[i],
         columns |-> [j \in 1..m |->
                         EditorColumn(ColumnIdOf(i, j), ColNameList[j],
                                      RegularShape(i, j))]]]

NoEdit == [kind |-> "none", i |-> 0, j |-> 0, name |-> N_empty, shape |-> PlainShape]

GraphEdits(n, m) ==
    {NoEdit}
    \cup {[kind |-> "table", i |-> i, j |-> 0, name |-> nm, shape |-> PlainShape] :
              i \in 1..n, nm \in Range(TableNameList) \cup {N_empty}}
    \cup {[kind |-> "column", i |-> i, j |-> j, name |-> nm, shape |-> PlainShape] :
              i \in 1..n, j \in 1..m, nm \in Range(ColNameList)}
    \cup {[kind |-> "shape", i |-> i, j |-> j, name |-> N_empty, shape |-> sh] :
              i \in 1..n, j \in 1..m, sh \in EditorShapes}

EditedTables(tbls, e) ==
    [i \in DOMAIN tbls |->
        IF i # e.i THEN tbls[i]
        ELSE IF e.kind = "table" THEN [tbls[i] EXCEPT !.name = e.name]
        ELSE [tbls[i] EXCEPT !.columns =
                 [j \in DOMAIN tbls[i].columns |->
                     IF j # e.j THEN tbls[i].columns[j]
                     ELSE IF e.kind = "column"
                          THEN [tbls[i].columns[j] EXCEPT !.name = e.name]
                          ELSE EditorColumn(tbls[i].columns[j].id,
                                            tbls[i].columns[j].name, e.shape)]]]

\* relation endpoints <<tableId, columnId>>: `from` is by convention the
\* primary-key side (the first column), `to` any column; both may be orphaned
FromEndpoints(n, m) ==
    {<<TableIdOf(i), ColumnIdOf(i, 1)>> : i \in 1..n}
    \cup {<<GhostId, GhostId>>}
    \cup {<<TableIdOf(i), GhostId>> : i \in {n} \ {0}}

ToEndpoints(n, m) ==
    {<<TableIdOf(i), ColumnIdOf(i, j)>> : i \in 1..n, j \in 1..m}
    \cup {<<GhostId, GhostId>>}
    \cup {<<TableIdOf(i), GhostId>> : i \in {n} \ {0}}

\* at most two relations; an orphan, when there is one, is the first
RelationLists(n, m) ==
    LET one == {<<f, t>> : f \in FromEndpoints(n, m), t \in ToEndpoints(n, m)}
        sound == {ft \in one : ft[1][2] # GhostId /\ ft[2][2] # GhostId}
        Rel(k, ft) == [id |-> RelationIdOf(k),
                       fromTableId |-> ft[1][1], fromColumnId |-> ft[1][2],
                       toTableId |-> ft[2][1], toColumnId |-> ft[2][2]]
    IN  {<<>>} \cup {<<Rel(1, a)>> : a \in one}
        \cup {<<Rel(1, a), Rel(2, b)>> : a \in one, b \in sound}

NoOut == [kind |-> "none"]

\* the editor page before it is mounted
NoPage == [kind |-> "none"]

EmptySchema == [tables |-> <<>>]

Init ==
    /\ \E n \in 0..MaxTables, m \in 0..MaxCols :
          /\ \E e \in GraphEdits(n, m) : tables = EditedTables(RegularTables(n, m), e)
          /\ relations \in RelationLists(n, m)
    /\ schema = EmptySchema
    /\ out = NoOut
    /\ pc = "graph"
    /\ isNormalized = FALSE
    /\ page = NoPage

(***************************************************************************)
(* Actions                                                                 *)
(***************************************************************************)
\* the largest identifier in use in the editor graph
MaxIdInUse ==
    LET ids == {GhostId} \cup {tables[i].id : i \in DOMAIN tables}
               \cup UNION {{tables[i].columns[j].id : j \in DOMAIN tables[i].columns} :
                              i \in DOMAIN tables}
               \cup {relations[k].id : k \in DOMAIN relations}
    IN  CHOOSE x \in ids : \A y \in ids : y <= x

\* store.getNormalizedSchema(): normalizeSchema(state.tables, state.relations)
Normalize ==
    /\ pc = "graph"
    /\ schema' = normalizeSchema(tables, relations)
    /\ pc' = "canon"
    /\ UNCHANGED <<tables, relations, out, isNormalized, page>>

\* denormalizeSchema(schema) on the canonical schema at hand (project load)
Denormalize ==
    /\ pc = "canon"
    /\ out' = [kind |-> "denormalized", raised |-> FALSE,
               graph |-> denormalizeSchema(schema, MaxIdInUse + 1)]
    /\ pc' = "loaded"
    /\ UNCHANGED <<tables, relations, schema, isNormalized, page>>

Next == Normalize \/ Denormalize

Spec == Init /\ [][Next]_vars


(***************************************************************************)
(* Canonical schemas drawn by InitCanon                                    *)
(*                                                                         *)
(* A schema is a regular schema of n <= MaxTables tables of m <= MaxCols   *)
(* columns (a key first, then plain columns, no foreignKey, no default),   *)
(* changed in at most two places: first a column replaced (any type,       *)
(* primaryKey and default, or any type, primaryKey and foreignKey, the     *)
(* foreignKey naming a column of the first table, an absent table or an    *)
(* absent column), a table or column renamed, or a table emptied; then a   *)
(* second column replaced (what a foreignKey may refer to, a second        *)
(* autoincrement, a second foreignKey).  Keys equal names, as in every     *)
(* schema normalize makes.                                                 *)
(***************************************************************************)
NoForeignKey == <<>>

ForeignKeyTo(tableName, columnName) == <<[table |-> tableName, column |-> columnName]>>

CanonShape(type, primaryKey, default, foreignKey) ==
    [type |-> type, primaryKey |-> primaryKey, nullable |-> FALSE, unique |-> FALSE,
     default |-> default, foreignKey |-> foreignKey]

CanonColumn(name, sh) ==
    [name |-> name, type |-> sh.type, primaryKey |-> sh.primaryKey,
     nullable |-> sh.nullable, unique |-> sh.unique,
     foreignKey |-> sh.foreignKey, default |-> sh.default]

RegularSchema(n, m) ==
    [tables |->
        [i \in 1..n |->
            [key |-> TableNameList[i],
             val |-> [name |-> TableNameList[i],
                      columns |->
                          [j \in 1..m |->
                              [key |-> ColNameList[j],
                               val |-> CanonColumn(ColNameList[j],
                                           CanonShape(RegularShape(i, j).type,
                                                      RegularShape(i, j).primaryKey,
                                                      NoDefault, NoForeignKey))]]]]]]

DefaultPool ==
    {NoDefault, DefaultOf("autoincrement", ""), DefaultOf("uuid", ""),
     DefaultOf("now", ""), DefaultOf("value", "x")}

\* a foreignKey refers to a column of the first table, to an absent table or
\* to an absent column of the first table
ForeignKeyPool(m) ==
    {ForeignKeyTo(N_users, ColNameList[l]) : l \in 1..m}
    \cup {ForeignKeyTo(N_ghost, N_id), ForeignKeyTo(N_users, N_ghost)}

FirstShapes(m) ==
    {CanonShape(t, pk, d, NoForeignKey) :
        t \in {"int", "varchar", "timestamp"}, pk \in BOOLEAN, d \in DefaultPool}
    \cup {CanonShape(t, pk, NoDefault, fk) :
        t \in {"int", "varchar", ""}, pk \in BOOLEAN, fk \in ForeignKeyPool(m)}

SecondShapes ==
    {CanonShape(t, pk, NoDefault, NoForeignKey) :
        t \in {"int", "varchar", ""}, pk \in BOOLEAN}
    \cup {CanonShape("int", TRUE, DefaultOf("autoincrement", ""), NoForeignKey),
          CanonShape("varchar", FALSE, DefaultOf("autoincrement", ""), NoForeignKey),
          CanonShape("int", FALSE, NoDefault, ForeignKeyTo(N_ghost, N_id)),
          CanonShape("int", TRUE, NoDefault, ForeignKeyTo(N_users, N_id)),
          CanonShape("varchar", FALSE, NoDefault, ForeignKeyTo(N_users, N_id))}

TableNamePool ==
    {N_empty, <<" ">>, <<"_">>, <<"_", "a">>, <<"_", "_">>, <<"a", "_", "_", "b">>,
     <<"a", "_", "1">>, <<"1", "a">>, <<"a", "B">>, <<"a", "-", "b">>,
     <<"U", "s", "e", "r">>, <<"u", "s", "e", "r">>, <<"U", "s", "e", "r", "s">>,
     <<"P", "o", "s", "t", "s">>}

ColumnNamePool == {N_empty, <<"I", "d">>, <<"U", "i", "d">>}

NoChange ==
    [kind |-> "none", i |-> 0, j |-> 0, name |-> N_empty,
     shape |-> CanonShape("", FALSE, NoDefault, NoForeignKey)]

FirstChanges(n, m) ==
    {NoChange}
    \cup {[NoChange EXCEPT !.kind = "shape", !.i = i, !.j = j, !.shape = sh] :
              i \in 1..n, j \in 1..m, sh \in FirstShapes(m)}
    \cup {[NoChange EXCEPT !.kind = "table", !.i = i, !.name = nm] :
              i \in 1..n, nm \in TableNamePool}
    \cup {[NoChange EXCEPT !.kind = "empty", !.i = i] : i \in 1..n}
    \cup {[NoChange EXCEPT !.kind = "column", !.i = i, !.j = j, !.name = nm] :
              i \in 1..n, j \in 1..m, nm \in ColumnNamePool}

\* the second change is made in the first table or in the table of the first
SecondChanges(n, m, c1) ==
    {NoChange}
    \cup {[NoChange EXCEPT !.kind = "shape", !.i = i, !.j = j, !.shape = sh] :
              i \in (1..n) \cap {1, c1.i}, j \in 1..m, sh \in SecondShapes}

ChangedSchema(sch, c) ==
    [tables |->
        [i \in DOMAIN sch.tables |->
            IF i # c.i THEN sch.tables[i]
            ELSE IF c.kind = "table"
            THEN [key |-> c.name, val |-> [sch.tables[i].val EXCEPT !.name = c.name]]
            ELSE IF c.kind = "empty"
            THEN [sch.tables[i] EXCEPT !.val.columns = <<>>]
            ELSE [sch.tables[i] EXCEPT !.val.columns =
                     [j \in DOMAIN sch.tables[i].val.columns |->
                         LET e == sch.tables[i].val.columns[j]
                         IN  IF j # c.j THEN e
                             ELSE IF c.kind = "column"
                             THEN [key |-> c.name, val |-> [e.val EXCEPT !.name = c.name]]
                             ELSE [key |-> e.key,
                                   val |-> CanonColumn(e.val.name, c.shape)]]]]]

InitCanon ==
    /\ \E n \in 0..MaxTables, m \in 1..MaxCols :
          \E c1 \in FirstChanges(n, m) : \E c2 \in SecondChanges(n, m, c1) :
              schema = ChangedSchema(ChangedSchema(RegularSchema(n, m), c1), c2)
    /\ tables = <<>>
    /\ relations = <<>>
    /\ out = NoOut
    /\ pc = "canon"
    /\ isNormalized = FALSE
    /\ page = NoPage

\* validateSchema(schema) (the editor's validation of the normalized schema)
Validate ==
    /\ pc = "canon"
    /\ out' = [kind |-> "validated", raised |-> FALSE, result |-> validateSchema(schema)]
    /\ pc' = "validated"
    /\ UNCHANGED <<tables, relations, schema, isNormalized, page>>

\* validateSchemaForGeneration(schema) (what both generators call first)
Guard ==
    /\ pc = "canon"
    /\ out' = [kind |-> "guarded", result |-> validateSchemaForGeneration(schema)]
    /\ pc' = "guarded"
    /\ UNCHANGED <<tables, relations, schema, isNormalized, page>>

NextCanon == Denormalize \/ Validate \/ Guard

SpecCanon == InitCanon /\ [][NextCanon]_vars

(***************************************************************************)
(* Schemas handed to the generators                                        *)
(*                                                                         *)
(* n <= MaxTables tables named from one of two lists, each of              *)
(* m <= MaxCols columns, the first an int primary key and the others       *)
(* varchar, with at most two columns replaced: what the guard refuses      *)
(* (a foreignKey on a primary key, to an absent table or column, to a      *)
(* column that is not a primary key), what only validate refuses (a        *)
(* second primary key, a foreignKey of another type), and foreignKeys      *)
(* between the tables in both directions and onto the table itself.        *)
(***************************************************************************)
GenNameLists ==
    {TableNameList,
     <<<<"a", "s">>, <<"a", "_", "b">>, <<"b", "o", "x", "e", "s">>>>}

GenRegularSchema(names, n, m) ==
    [tables |->
        [i \in 1..n |->
            [key |-> names[i],
             val |-> [name |-> names[i],
                      columns |->
                          [j \in 1..m |->
                              [key |-> ColNameList[j],
                               val |-> CanonColumn(ColNameList[j],
                                           IF j = 1
                                           THEN CanonShape("int", TRUE, NoDefault, NoForeignKey)
                                           ELSE CanonShape("varchar", FALSE, NoDefault,
                                                           NoForeignKey))]]]]]]

GenForeignKeyPool(names, n) ==
    {ForeignKeyTo(names[k], N_id) : k \in 1..n}
    \cup {ForeignKeyTo(N_ghost, N_id), ForeignKeyTo(names[1], N_ghost)}

GenFirstShapes(names, n) ==
    {CanonShape(t, pk, NoDefault, fk) :
        t \in {"int", "varchar"}, pk \in BOOLEAN,
        fk \in {NoForeignKey} \cup GenForeignKeyPool(names, n)}
    \cup {CanonShape("int", TRUE, DefaultOf("autoincrement", ""), NoForeignKey),
          CanonShape("json", FALSE, DefaultOf("value", "x"), NoForeignKey)}

GenSecondShapes(names, n) ==
    {CanonShape("int", FALSE, NoDefault, ForeignKeyTo(names[k], N_id)) : k \in 1..n}
    \cup {CanonShape("int", TRUE, NoDefault, ForeignKeyTo(names[1], N_id)),
          CanonShape("int", FALSE, NoDefault, ForeignKeyTo(N_ghost, N_id)),
          CanonShape("varchar", TRUE, NoDefault, NoForeignKey),
          CanonShape("varchar", FALSE, NoDefault, NoForeignKey)}

ShapeChanges(n, m, shapes) ==
    {NoChange}
    \cup {[NoChange EXCEPT !.kind = "shape", !.i = i, !.j = j, !.shape = sh] :
              i \in 1..n, j \in 1..m, sh \in shapes}

InitGen ==
    /\ \E names \in GenNameLists, n \in 1..MaxTables, m \in 1..MaxCols :
          \E c1 \in ShapeChanges(n, m, GenFirstShapes(names, n)) :
              \E c2 \in ShapeChanges(n, m, GenSecondShapes(names, n)) :
                  schema = ChangedSchema(ChangedSchema(GenRegularSchema(names, n, m), c1), c2)
    /\ tables = <<>>
    /\ relations = <<>>
    /\ out = NoOut
    /\ pc = "canon"
    /\ isNormalized = FALSE
    /\ page = NoPage

\* generatePostgresSQL(schema), by either copy of the generator
RenderSql ==
    /\ pc = "canon"
    /\ \E copy \in GeneratorCopies :
          out' = [kind |-> "sql", copy |-> copy,
                  result |-> generatePostgresSQL(copy, schema), repeat |-> <<>>]
    /\ pc' = "rendered"
    /\ UNCHANGED <<tables, relations, schema, isNormalized, page>>

\* generatePrismaSchema(schema), by either copy of the generator
RenderOrm ==
    /\ pc = "canon"
    /\ \E copy \in GeneratorCopies :
          out' = [kind |-> "orm", copy |-> copy,
                  result |-> generatePrismaSchema(copy, schema), repeat |-> <<>>]
    /\ pc' = "rendered"
    /\ UNCHANGED <<tables, relations, schema, isNormalized, page>>

\* the same generator called once more with the same schema
RenderAgain ==
    /\ pc = "rendered"
    /\ out' = [out EXCEPT !.repeat =
                  <<IF out.kind = "sql" THEN generatePostgresSQL(out.copy, schema)
                    ELSE generatePrismaSchema(out.copy, schema)>>]
    /\ pc' = "repeated"
    /\ UNCHANGED <<tables, relations, schema, isNormalized, page>>

NextGen == RenderSql \/ RenderOrm \/ RenderAgain

SpecGen == InitGen /\ [][NextGen]_vars

(***************************************************************************)
(* orderTables step by step                                                *)
(*                                                                         *)
(* The recursion of visit is unfolded on an explicit call stack: a frame   *)
(* holds the table being visited, its deps and the position of the next    *)
(* dep; next is the position of the outer loop over the tables.            *)
(***************************************************************************)
OrderShapes(names, n) ==
    {CanonShape("int", FALSE, NoDefault, fk) :
        fk \in {ForeignKeyTo(names[k], N_id) : k \in 1..n} \cup {ForeignKeyTo(N_ghost, N_id)}}

InitOrder ==
    /\ \E n \in 1..MaxTables, m \in 1..MaxCols :
          \E c1 \in ShapeChanges(n, m, OrderShapes(TableNameList, n)) :
              \E c2 \in ShapeChanges(n, m, OrderShapes(TableNameList, n)) :
                  schema = ChangedSchema(ChangedSchema(
                               GenRegularSchema(TableNameList, n, m), c1), c2)
    /\ tables = <<>>
    /\ relations = <<>>
    /\ out = NoOut
    /\ pc = "canon"
    /\ isNormalized = FALSE
    /\ page = NoPage

\* a call of visit(tableName): it returns at once on a table being visited
\* or visited, else marks the table as being visited and starts on its deps
CallVisit(o, tableName) ==
    IF tableName \in o.visiting THEN o
    ELSE IF tableName \in o.visited THEN o
    ELSE [o EXCEPT !.visiting = @ \cup {tableName},
                   !.stack = Append(@, [table |-> tableName,
                                        deps |-> Dependencies(schema, tableName),
                                        i |-> 1])]

\* variant: the table is not recorded as visited
ReturnedUnrecorded(o) ==
    LET top == o.stack[Len(o.stack)]
    IN  [o EXCEPT !.stack = SubSeq(@, 1, Len(@) - 1),
                  !.visiting = @ \ {top.table},
                  !.ordered = Append(@, top.table)]

\* the end of visit: the marker is removed and the table recorded and emitted
Returned(o) ==
    LET top == o.stack[Len(o.stack)]
    IN  [o EXCEPT !.stack = SubSeq(@, 1, Len(@) - 1),
                  !.visiting = @ \ {top.table},
                  !.visited = @ \cup {top.table},
                  !.ordered = Append(@, top.table)]

OrderStart ==
    /\ pc = "canon"
    /\ out' = [kind |-> "ordering", ordered |-> <<>>, visited |-> {}, visiting |-> {},
               stack |-> <<>>, next |-> 1]
    /\ pc' = "ordering"
    /\ UNCHANGED <<tables, relations, schema, isNormalized, page>>

\* for (const tableName of tables) visit(tableName)
OrderVisitNext ==
    /\ pc = "ordering"
    /\ out.stack = <<>>
    /\ out.next <= Len(schema.tables)
    /\ out' = CallVisit([out EXCEPT !.next = @ + 1], schema.tables[out.next].key)
    /\ UNCHANGED <<tables, relations, schema, pc, isNormalized, page>>

\* for (const dep of deps) if (schema.tables[dep]) visit(dep)
OrderDescend ==
    /\ pc = "ordering"
    /\ out.stack # <<>>
    /\ LET d == Len(out.stack)
           top == out.stack[d]
       IN  /\ top.i <= Len(top.deps)
           /\ out' = LET o == [out EXCEPT !.stack[d].i = @ + 1]
                     IN  IF ObjHas(schema.tables, top.deps[top.i])
                         THEN CallVisit(o, top.deps[top.i])
                         ELSE o
    /\ UNCHANGED <<tables, relations, schema, pc, isNormalized, page>>

OrderReturn ==
    /\ pc = "ordering"
    /\ out.stack # <<>>
    /\ out.stack[Len(out.stack)].i > Len(out.stack[Len(out.stack)].deps)
    /\ out' = Returned(out)
    /\ UNCHANGED <<tables, relations, schema, pc, isNormalized, page>>

\* return ordered
OrderDone ==
    /\ pc = "ordering"
    /\ out.stack = <<>>
    /\ out.next > Len(schema.tables)
    /\ pc' = "ordered"
    /\ UNCHANGED <<tables, relations, schema, out, isNormalized, page>>

NextOrder == OrderStart \/ OrderVisitNext \/ OrderDescend \/ OrderReturn \/ OrderDone

\* the call runs to completion: nothing else is scheduled
SpecOrder == InitOrder /\ [][NextOrder]_vars /\ WF_vars(NextOrder)

(***************************************************************************)
(* Table names handed to toModelName                                       *)
(*                                                                         *)
(* A name is made of one to MaxWords words joined by underscores; the      *)
(* words end in each suffix of the cascade, in ss, in no s at all, or are  *)
(* a single letter.                                                        *)
(***************************************************************************)
WordPool ==
    {<<"o", "r", "d", "e", "r">>, <<"i", "t", "e", "m", "s">>,
     <<"c", "l", "a", "s", "s">>, <<"c", "i", "t", "i", "e", "s">>,
     <<"w", "o", "l", "v", "e", "s">>, <<"b", "u", "s", "e", "s">>,
     <<"b", "o", "x", "e", "s">>, <<"i", "n", "c", "h", "e", "s">>,
     <<"d", "i", "s", "h", "e", "s">>, <<"m", "e", "d", "i", "a">>,
     <<"s", "s">>, <<"s">>, <<"a">>}

RECURSIVE NamesOfWords(_)
NamesOfWords(k) ==
    IF k = 1 THEN WordPool
    ELSE {nm \o <<"_">> \o w : nm \in NamesOfWords(k - 1), w \in WordPool}

InitNames ==
    /\ \E k \in 1..MaxWords : \E nm \in NamesOfWords(k) :
          out = [kind |-> "tableName", name |-> nm]
    /\ schema = EmptySchema
    /\ tables = <<>>
    /\ relations = <<>>
    /\ pc = "name"
    /\ isNormalized = FALSE
    /\ page = NoPage

\* toModelName(tableName), by either copy of the generator
DeriveModelName ==
    /\ pc = "name"
    /\ \E copy \in GeneratorCopies :
          out' = [kind |-> "modelName", copy |-> copy, name |-> out.name,
                  result |-> toModelName(copy, out.name)]
    /\ pc' = "named"
    /\ UNCHANGED <<tables, relations, schema, isNormalized, page>>

NextNames == DeriveModelName

SpecNames == InitNames /\ [][NextNames]_vars

(***************************************************************************)
(* Editor store (store/schemaStore.ts)                                     *)
(*                                                                         *)
(* A command is an operator from the store's state {tables, relations,     *)
(* isNormalized} to the state that set() leaves.  Partial<Column> and      *)
(* Partial<Relation> are records over some of the fields; a field set to   *)
(* undefined (default: undefined) is the absent optional field.            *)
(***************************************************************************)
N_new_table == <<"n","e","w","_","t","a","b","l","e">>
N_column_name == <<"c","o","l","u","m","n","_","n","a","m","e">>

\* {...object, ...data}
Spread(object, data) ==
    [f \in DOMAIN object |-> IF f \in DOMAIN data THEN data[f] ELSE object[f]]

addTable(st, uuid) ==
    LET newTable == [id |-> uuid, name |-> N_new_table, columns |-> <<>>]
    IN  [st EXCEPT !.tables = Append(st.tables, newTable), !.isNormalized = FALSE]

updateTableName(st, id, name) ==
    [st EXCEPT !.tables = [i \in DOMAIN st.tables |->
                              IF st.tables[i].id = id
                              THEN [st.tables[i] EXCEPT !.name = name]
                              ELSE st.tables[i]],
               !.isNormalized = FALSE]

\* variant: the relations of the deleted table are kept
deleteTableOnly(st, id) ==
    LET keepTable(table) == table.id # id
    IN  [st EXCEPT !.tables = SelectSeq(st.tables, keepTable), !.isNormalized = FALSE]

deleteTable(st, id) ==
    LET keepTable(table) == table.id # id
        keepRelation(rel) == rel.fromTableId # id /\ rel.toTableId # id
    IN  [st EXCEPT !.tables = SelectSeq(st.tables, keepTable),
                   !.relations = SelectSeq(st.relations, keepRelation),
                   !.isNormalized = FALSE]

addColumn(st, tableId, uuid) ==
    LET newColumn == EditorColumn(uuid, N_column_name, PlainShape)
    IN  [st EXCEPT !.tables = [i \in DOMAIN st.tables |->
                                  IF st.tables[i].id = tableId
                                  THEN [st.tables[i] EXCEPT
                                           !.columns = Append(st.tables[i].columns, newColumn)]
                                  ELSE st.tables[i]],
                   !.isNormalized = FALSE]

\* variant: the flag is left as it was
updateColumnKeepsFlag(st, tableId, columnId, data) ==
    [st EXCEPT !.tables = [i \in DOMAIN st.tables |->
                              IF st.tables[i].id = tableId
                              THEN [st.tables[i] EXCEPT !.columns =
                                       [j \in DOMAIN st.tables[i].columns |->
                                           IF st.tables[i].columns[j].id = columnId
                                           THEN Spread(st.tables[i].columns[j], data)
                                           ELSE st.tables[i].columns[j]]]
                              ELSE st.tables[i]]]

updateColumn(st, tableId, columnId, data) ==
    [st EXCEPT !.tables = [i \in DOMAIN st.tables |->
                              IF st.tables[i].id = tableId
                              THEN [st.tables[i] EXCEPT !.columns =
                                       [j \in DOMAIN st.tables[i].columns |->
                                           IF st.tables[i].columns[j].id = columnId
                                           THEN Spread(st.tables[i].columns[j], data)
                                           ELSE st.tables[i].columns[j]]]
                              ELSE st.tables[i]],
               !.isNormalized = FALSE]

deleteColumn(st, tableId, columnId) ==
    LET keepColumn(column) == column.id # columnId
        keepRelation(rel) ==
            /\ ~(rel.fromTableId = tableId /\ rel.fromColumnId = columnId)
            /\ ~(rel.toTableId = tableId /\ rel.toColumnId = columnId)
    IN  [st EXCEPT !.tables = [i \in DOMAIN st.tables |->
                                  IF st.tables[i].id = tableId
                                  THEN [st.tables[i] EXCEPT
                                           !.columns = SelectSeq(st.tables[i].columns, keepColumn)]
                                  ELSE st.tables[i]],
                   !.relations = SelectSeq(st.relations, keepRelation),
                   !.isNormalized = FALSE]

addRelation(st, relation, uuid) ==
    LET newRelation == [id |-> uuid,
                        fromTableId |-> relation.fromTableId,
                        fromColumnId |-> relation.fromColumnId,
                        toTableId |-> relation.toTableId,
                        toColumnId |-> relation.toColumnId]
    IN  [st EXCEPT !.relations = Append(st.relations, newRelation), !.isNormalized = FALSE]

updateRelation(st, relationId, updates) ==
    [st EXCEPT !.relations = [k \in DOMAIN st.relations |->
                                 IF st.relations[k].id = relationId
                                 THEN Spread(st.relations[k], updates)
                                 ELSE st.relations[k]],
               !.isNormalized = FALSE]

removeRelation(st, relationId) ==
    LET keepRelation(rel) == rel.id # relationId
    IN  [st EXCEPT !.relations = SelectSeq(st.relations, keepRelation), !.isNormalized = FALSE]

getNormalizedSchema(st) == normalizeSchema(st.tables, st.relations)

loadSchema(st, tbls, rels) ==
    [tables |-> tbls, relations |-> rels, isNormalized |-> FALSE]

setNormalized(st, value) == [st EXCEPT !.isNormalized = value]

\* the state the hooks read: useSchemaStore()
Store == [tables |-> tables, relations |-> relations, isNormalized |-> isNormalized]

\* set(): the store takes the state a command returns
StoreBecomes(st) ==
    /\ tables' = st.tables
    /\ relations' = st.relations
    /\ isNormalized' = st.isNormalized

(***************************************************************************)
(* One command on a store                                                  *)
(*                                                                         *)
(* The store starts in any state its commands reach (loadSchema takes any  *)
(* graph and setNormalized any flag): a regular graph with relations, some *)
(* orphaned, and either value of the flag.  One command is then called,    *)
(* with identifiers of the graph or identifiers it does not hold; `out`    *)
(* keeps the command, its arguments and the state before it.               *)
(***************************************************************************)
InitStore ==
    /\ \E n \in 0..MaxTables, m \in 0..MaxCols :
          /\ tables = RegularTables(n, m)
          /\ relations \in RelationLists(n, m)
    /\ isNormalized \in BOOLEAN
    /\ schema = EmptySchema
    /\ out = NoOut
    /\ pc = "store"
    /\ page = NoPage

\* the identifiers a command may be given for a table, a column, a relation
TableIdPool == {tables[i].id : i \in DOMAIN tables} \cup {GhostId}

ColumnIdPool ==
    UNION {{tables[i].columns[j].id : j \in DOMAIN tables[i].columns} : i \in DOMAIN tables}
    \cup {GhostId}

RelationIdPool == {relations[k].id : k \in DOMAIN relations} \cup {GhostId}

\* the Partial<Column> values given to updateColumn
ColumnDataPool ==
    {[name |-> N_ref], [type |-> "int", default |-> NoDefault], [primaryKey |-> TRUE]}

\* the Partial<Relation> values given to updateRelation
RelationUpdatesPool ==
    {[toTableId |-> t, toColumnId |-> c] : t \in TableIdPool, c \in ColumnIdPool}
    \cup {[fromColumnId |-> GhostId]}

\* the graphs given to loadSchema: none, and a project read back
LoadedGraphPool ==
    {[tables |-> <<>>, relations |-> <<>>],
     denormalizeSchema(normalizeSchema(RegularTables(1, 1), <<>>), MaxIdInUse + 1)}

\* the command `name` called with `args` leaves the store in state st
Called(name, args, st) ==
    /\ pc = "store"
    /\ StoreBecomes(st)
    /\ out' = [kind |-> "command", name |-> name, args |-> args, before |-> Store]
    /\ pc' = "done"
    /\ UNCHANGED <<schema, page>>

AddTable == Called("addTable", <<>>, addTable(Store, MaxIdInUse + 1))

UpdateTableName ==
    \E id \in TableIdPool, name \in {N_tags, N_empty} :
        Called("updateTableName", <<id, name>>, updateTableName(Store, id, name))

DeleteTable ==
    \E id \in TableIdPool : Called("deleteTable", <<id>>, deleteTable(Store, id))

AddColumn ==
    \E tableId \in TableIdPool :
        Called("addColumn", <<tableId>>, addColumn(Store, tableId, MaxIdInUse + 1))

UpdateColumn ==
    \E tableId \in TableIdPool, columnId \in ColumnIdPool, data \in ColumnDataPool :
        Called("updateColumn", <<tableId, columnId, data>>,
               updateColumn(Store, tableId, columnId, data))

DeleteColumn ==
    \E tableId \in TableIdPool, columnId \in ColumnIdPool :
        Called("deleteColumn", <<tableId, columnId>>, deleteColumn(Store, tableId, columnId))

AddRelation ==
    \E t \in TableIdPool, c \in ColumnIdPool :
        LET relation == [fromTableId |-> TableIdOf(1), fromColumnId |-> ColumnIdOf(1, 1),
                         toTableId |-> t, toColumnId |-> c]
        IN  Called("addRelation", <<relation>>, addRelation(Store, relation, MaxIdInUse + 1))

UpdateRelation ==
    \E relationId \in RelationIdPool, updates \in RelationUpdatesPool :
        Called("updateRelation", <<relationId, updates>>,
               updateRelation(Store, relationId, updates))

RemoveRelation ==
    \E relationId \in RelationIdPool :
        Called("removeRelation", <<relationId>>, removeRelation(Store, relationId))

\* getNormalizedSchema(): the store is read, the schema is returned
GetNormalizedSchema ==
    /\ pc = "store"
    /\ schema' = getNormalizedSchema(Store)
    /\ out' = [kind |-> "command", name |-> "getNormalizedSchema", args |-> <<>>,
               before |-> Store]
    /\ pc' = "done"
    /\ UNCHANGED <<tables, relations, isNormalized, page>>

LoadSchema ==
    \E graph \in LoadedGraphPool :
        Called("loadSchema", <<graph>>, loadSchema(Store, graph.tables, graph.relations))

SetNormalized ==
    \E value \in BOOLEAN :
        Called("setNormalized", <<value>>, setNormalized(Store, value))

NextStore ==
    \/ AddTable \/ UpdateTableName \/ DeleteTable
    \/ AddColumn \/ UpdateColumn \/ DeleteColumn
    \/ AddRelation \/ UpdateRelation \/ RemoveRelation
    \/ GetNormalizedSchema \/ LoadSchema \/ SetNormalized

SpecStore == InitStore /\ [][NextStore]_vars

(***************************************************************************)
(* The editor (app/editor/page.tsx, components/ColumnRow.tsx)              *)
(*                                                                         *)
(* An identifier is a string: the one made by crypto.randomUUID() is a     *)
(* positive number, and the string made of a space followed by that uuid   *)
(* is the negative of it, which is no uuid.  A handle or option value      *)
(* `${tableId}<sep>${columnId}` is the record of its three parts.          *)
(***************************************************************************)
MaxRelations == 1

\* an optional value: null or undefined is <<>>
Null == <<>>

Some(x) == <<x>>

\* the numbers of the uuids that occur in the store or in the page's state
UuidsInUse ==
    LET abs(x) == IF x < 0 THEN -x ELSE x
    IN  {tables[i].id : i \in DOMAIN tables}
        \cup UNION {{tables[i].columns[j].id : j \in DOMAIN tables[i].columns} :
                       i \in DOMAIN tables}
        \cup UNION {{relations[k].id, abs(relations[k].fromTableId),
                      abs(relations[k].fromColumnId), abs(relations[k].toTableId),
                      abs(relations[k].toColumnId)} : k \in DOMAIN relations}
        \cup {page.selectedEdgeId[k] : k \in DOMAIN page.selectedEdgeId}

\* crypto.randomUUID(): an identifier that occurs nowhere in the state.  Which
\* one is immaterial, so the least unused number of a range is taken: of
\* 1..UuidRange - 1 for a table, of the range that starts at UuidRange * t
\* for a column of the table with identifier t, and of the range that
\* starts at UuidRange * UuidRange for a relation.  The commands that draw
\* one are enabled while the number stays within the first MaxTables,
\* MaxCols or MaxRelations of its range.
UuidRange == 10

RandomUUID(base) ==
    CHOOSE n \in (base + 1)..(base + Cardinality(UuidsInUse) + 1) :
        /\ n \notin UuidsInUse
        /\ \A m \in (base + 1)..(n - 1) : m \in UuidsInUse

TableUuid == RandomUUID(0)

ColumnUuid(tableId) == RandomUUID(UuidRange * tableId)

RelationUuid == RandomUUID(UuidRange * UuidRange)

\* ' ' + id
SpaceBefore(id) == -id

\* ColumnRow.handleId: `${tableId}::${column.id}`
HandleId(tableId, columnId) == [table |-> tableId, sep |-> "::", column |-> columnId]

\* the value of an option of the target select: `${table.id}:: ${column.id}`
OptionValue(tableId, columnId) == [table |-> tableId, sep |-> ":: ", column |-> columnId]

\* value.split('::') : what precedes and what follows the two colons
SplitOnColons(value) ==
    <<value.table,
      IF value.sep = "::" THEN value.column ELSE SpaceBefore(value.column)>>

\* the handles of the columns on the canvas
Handles ==
    UNION {{HandleId(tables[i].id, tables[i].columns[j].id) :
               j \in DOMAIN tables[i].columns} : i \in DOMAIN tables}

\* the options of the target select of the edit panel
TargetOptions ==
    UNION {{OptionValue(tables[i].id, tables[i].columns[j].id) :
               j \in DOMAIN tables[i].columns} : i \in DOMAIN tables}

\* tables.find(t => t.id === tableId)?.columns.find(c => c.id === columnId)
FindColumn(tbls, tableId, columnId) ==
    LET found == {<<i, j>> \in {<<i, j>> : i \in DOMAIN tbls, j \in 1..MaxCols + 1} :
                     /\ tbls[i].id = tableId
                     /\ j \in DOMAIN tbls[i].columns
                     /\ tbls[i].columns[j].id = columnId}
    IN  IF found = {} THEN Null
        ELSE LET ij == CHOOSE ij \in found : TRUE
             IN  Some(tbls[ij[1]].columns[ij[2]])

\* the edges drawn on the canvas: the relations whose two tables exist
Edges ==
    LET tableIds == {tables[i].id : i \in DOMAIN tables}
    IN  {relations[k].id : k \in {k \in DOMAIN relations :
                                      /\ relations[k].fromTableId \in tableIds
                                      /\ relations[k].toTableId \in tableIds}}

\* the names typed into a table's name field
EditorTableNames == {N_users}

\* the page once mounted, nothing selected and no project loaded
EditorPage == [kind |-> "editor", selectedEdgeId |-> Null]

InitEditor ==
    /\ tables = <<>>
    /\ relations = <<>>
    /\ isNormalized = FALSE
    /\ schema = EmptySchema
    /\ out = NoOut
    /\ pc = "editor"
    /\ page = EditorPage

HandleAddTable ==
    /\ pc = "editor"
    /\ Len(tables) < MaxTables
    /\ TableUuid <= MaxTables
    /\ StoreBecomes(addTable(Store, TableUuid))
    /\ UNCHANGED <<schema, out, pc, page>>

\* TableNode: the name field and the delete and add-column buttons
HandleTableNameChange ==
    /\ pc = "editor"
    /\ \E i \in DOMAIN tables, name \in EditorTableNames :
          StoreBecomes(updateTableName(Store, tables[i].id, name))
    /\ UNCHANGED <<schema, out, pc, page>>

HandleDeleteTable ==
    /\ pc = "editor"
    /\ \E i \in DOMAIN tables : StoreBecomes(deleteTable(Store, tables[i].id))
    /\ UNCHANGED <<schema, out, pc, page>>

HandleAddColumn ==
    /\ pc = "editor"
    /\ \E i \in DOMAIN tables :
          /\ Len(tables[i].columns) < MaxCols
          /\ ColumnUuid(tables[i].id) <= UuidRange * tables[i].id + MaxCols
          /\ StoreBecomes(addColumn(Store, tables[i].id, ColumnUuid(tables[i].id)))
    /\ UNCHANGED <<schema, out, pc, page>>

\* ColumnRow.handleToggle('primaryKey') of a column without default
HandleTogglePrimaryKey ==
    /\ pc = "editor"
    /\ \E i \in DOMAIN tables : \E j \in DOMAIN tables[i].columns :
          StoreBecomes(updateColumn(Store, tables[i].id, tables[i].columns[j].id,
                                    [primaryKey |-> ~tables[i].columns[j].primaryKey]))
    /\ UNCHANGED <<schema, out, pc, page>>

\* ColumnRow.handleDelete
HandleDeleteColumn ==
    /\ pc = "editor"
    /\ \E i \in DOMAIN tables : \E j \in DOMAIN tables[i].columns :
          StoreBecomes(deleteColumn(Store, tables[i].id, tables[i].columns[j].id))
    /\ UNCHANGED <<schema, out, pc, page>>

\* handleConnect(connection): the source must be a primary key
HandleConnect ==
    /\ pc = "editor"
    /\ Len(relations) < MaxRelations
    /\ RelationUuid <= UuidRange * UuidRange + MaxRelations
    /\ \E sourceHandle \in Handles, targetHandle \in Handles :
          LET source == SplitOnColons(sourceHandle)
              target == SplitOnColons(targetHandle)
              sourceColumn == FindColumn(tables, source[1], source[2])
          IN  /\ sourceColumn # Null
              /\ sourceColumn[1].primaryKey
              /\ StoreBecomes(addRelation(Store,
                                 [fromTableId |-> source[1], fromColumnId |-> source[2],
                                  toTableId |-> target[1], toColumnId |-> target[2]],
                                 RelationUuid))
    /\ UNCHANGED <<schema, out, pc, page>>

\* handleEdgeClick(event, edge)
HandleEdgeClick ==
    /\ pc = "editor"
    /\ \E edge \in Edges : page' = [page EXCEPT !.selectedEdgeId = Some(edge)]
    /\ UNCHANGED <<tables, relations, isNormalized, schema, out, pc>>

\* the option the target select shows for a relation: the one whose value is
\* the select's value `${relation.toTableId}:: ${relation.toColumnId}` or,
\* when no option has that value, the first one
ShownOption(relation) ==
    LET value == OptionValue(relation.toTableId, relation.toColumnId)
    IN  IF value \in TargetOptions THEN value
        ELSE LET i == CHOOSE i \in DOMAIN tables :
                          /\ tables[i].columns # <<>>
                          /\ \A l \in 1..(i - 1) : tables[l].columns = <<>>
             IN  OptionValue(tables[i].id, tables[i].columns[1].id)

\* handleUpdateTargetColumn(e.target.value), from the select of the edit
\* panel, which is shown while the selected relation exists; the change
\* event comes with an option other than the one shown
HandleUpdateTargetColumn ==
    /\ pc = "editor"
    /\ page.selectedEdgeId # Null
    /\ \E k \in DOMAIN relations :
          /\ relations[k].id = page.selectedEdgeId[1]
          /\ \E newTargetColumnId \in TargetOptions :
                 LET target == SplitOnColons(newTargetColumnId)
                 IN  /\ newTargetColumnId # ShownOption(relations[k])
                     /\ StoreBecomes(updateRelation(Store, page.selectedEdgeId[1],
                                        [toTableId |-> target[1], toColumnId |-> target[2]]))
    /\ UNCHANGED <<schema, out, pc, page>>

\* handleDeleteSelectedEdge
HandleDeleteSelectedEdge ==
    /\ pc = "editor"
    /\ page.selectedEdgeId # Null
    /\ StoreBecomes(removeRelation(Store, page.selectedEdgeId[1]))
    /\ page' = [page EXCEPT !.selectedEdgeId = Null]
    /\ UNCHANGED <<schema, out, pc>>

\* variant: the flag is set whatever validation says
HandleTestNormalizationUnchecked ==
    /\ pc = "editor"
    /\ StoreBecomes(setNormalized(Store, TRUE))
    /\ UNCHANGED <<schema, out, pc, page>>

\* handleTestNormalization: the flag is set when validation passes
HandleTestNormalization ==
    /\ pc = "editor"
    /\ LET normalized == getNormalizedSchema(Store)
           validationResult == validateSchema(normalized)
       IN  IF validationResult.valid
           THEN StoreBecomes(setNormalized(Store, TRUE))
           ELSE UNCHANGED <<tables, relations, isNormalized>>
    /\ UNCHANGED <<schema, out, pc, page>>

\* handleNewProject: loadSchema([], [])
HandleNewProject ==
    /\ pc = "editor"
    /\ StoreBecomes(loadSchema(Store, <<>>, <<>>))
    /\ UNCHANGED <<schema, out, pc, page>>

\* ExportPanel.canExport, which copyToClipboard tests again before it calls
\* a generator
canExport ==
    IF ~isNormalized THEN FALSE
    ELSE validateSchema(normalizeSchema(tables, relations)).valid

NextEditor ==
    \/ HandleAddTable \/ HandleTableNameChange \/ HandleDeleteTable
    \/ HandleAddColumn \/ HandleTogglePrimaryKey
    \/ HandleDeleteColumn
    \/ HandleConnect \/ HandleEdgeClick \/ HandleUpdateTargetColumn
    \/ HandleDeleteSelectedEdge
    \/ HandleTestNormalization \/ HandleNewProject

SpecEditor == InitEditor /\ [][NextEditor]_vars

(***************************************************************************)
(* The column editor (components/ColumnRow.tsx)                            *)
(*                                                                         *)
(* One row per column of a table: the name field, the type dropdown, the   *)
(* three toggles, the delete button and, in the advanced panel, the three  *)
(* default checkboxes and the custom value field.  A disabled checkbox     *)
(* receives no change event.  The handlers are operators from the store's  *)
(* state and the row's column to the state the store takes.                *)
(***************************************************************************)
MaxEditedTables == 1

DATATYPES == <<"int", "varchar", "text", "boolean", "timestamp", "uuid">>

\* column.default?.kind === kind
DefaultKindOf(column) ==
    IF column.default = NoDefault THEN "" ELSE column.default[1].kind

hasOtherAutoincrement(tbls, tableId, column) ==
    \E i \in DOMAIN tbls :
        /\ tbls[i].id = tableId
        /\ \E j \in DOMAIN tbls[i].columns :
               /\ tbls[i].columns[j].id # column.id
               /\ DefaultKindOf(tbls[i].columns[j]) = "autoincrement"

canUseAutoincrement(tbls, tableId, column) ==
    column.type = "int" /\ column.primaryKey /\ ~hasOtherAutoincrement(tbls, tableId, column)

canUseUUID(column) ==
    (column.type = "uuid" \/ column.type = "varchar") /\ column.primaryKey

canUseNow(column) == column.type = "timestamp"

handleNameChange(st, tableId, column, value) ==
    updateColumn(st, tableId, column.id, [name |-> value])

\* variant: the default is kept whatever the new type
handleTypeChangeKeepsDefault(st, tableId, column, newType) ==
    updateColumn(st, tableId, column.id, [type |-> newType])

handleTypeChange(st, tableId, column, newType) ==
    LET kind == DefaultKindOf(column)
        clears ==
            /\ column.default # NoDefault
            /\ \/ newType # "int" /\ kind = "autoincrement"
               \/ newType # "timestamp" /\ kind = "now"
               \/ (newType # "uuid" /\ newType # "varchar") /\ kind = "uuid"
    IN  updateColumn(st, tableId, column.id,
                     IF clears THEN [type |-> newType, default |-> NoDefault]
                     ELSE [type |-> newType])

handleToggle(st, tableId, column, field) ==
    LET kind == DefaultKindOf(column)
        clears ==
            /\ field = "primaryKey" /\ column.primaryKey /\ column.default # NoDefault
            /\ (kind = "autoincrement" \/ kind = "uuid")
        updates == [f \in {field} |-> ~column[f]]
    IN  updateColumn(st, tableId, column.id,
                     IF clears THEN [f \in {field, "default"} |->
                                        IF f = field THEN ~column[field] ELSE NoDefault]
                     ELSE updates)

\* kind "" stands for null
handleDefaultChange(st, tableId, column, kind, value) ==
    IF kind = "" THEN updateColumn(st, tableId, column.id, [default |-> NoDefault])
    ELSE IF kind = "value"
    THEN updateColumn(st, tableId, column.id, [default |-> DefaultOf("value", value)])
    ELSE updateColumn(st, tableId, column.id, [default |-> DefaultOf(kind, "")])

\* the change event of a default checkbox: checked when it was not, and back
CheckboxChange(st, tableId, column, kind) ==
    IF DefaultKindOf(column) = kind
    THEN handleDefaultChange(st, tableId, column, "", "")
    ELSE handleDefaultChange(st, tableId, column, kind, "")

\* the texts typed into a column's name field and into the custom value field
ColumnRowNames == {N_id}

CustomValues == {"x", " "}

\* e.target.value.trim() is not empty
NotBlank(value) == value # "" /\ value # " "

InitColumns ==
    /\ tables = <<>>
    /\ relations = <<>>
    /\ isNormalized = FALSE
    /\ schema = EmptySchema
    /\ out = NoOut
    /\ pc = "columns"
    /\ page = EditorPage

\* the toolbar's Add Table button
ToolbarAddTable ==
    /\ pc = "columns"
    /\ Len(tables) < MaxEditedTables
    /\ StoreBecomes(addTable(Store, TableUuid))
    /\ UNCHANGED <<schema, out, pc, page>>

\* TableNode: the add-column button
TableAddColumn ==
    /\ pc = "columns"
    /\ \E i \in DOMAIN tables :
          /\ Len(tables[i].columns) < MaxCols
          /\ ColumnUuid(tables[i].id) <= UuidRange * tables[i].id + MaxCols
          /\ StoreBecomes(addColumn(Store, tables[i].id, ColumnUuid(tables[i].id)))
    /\ UNCHANGED <<schema, out, pc, page>>

RowNameChange ==
    /\ pc = "columns"
    /\ \E i \in DOMAIN tables : \E j \in DOMAIN tables[i].columns :
          \E value \in ColumnRowNames :
              StoreBecomes(handleNameChange(Store, tables[i].id, tables[i].columns[j], value))
    /\ UNCHANGED <<schema, out, pc, page>>

RowTypeChange ==
    /\ pc = "columns"
    /\ \E i \in DOMAIN tables : \E j \in DOMAIN tables[i].columns :
          \E t \in DOMAIN DATATYPES :
              StoreBecomes(handleTypeChange(Store, tables[i].id, tables[i].columns[j],
                                            DATATYPES[t]))
    /\ UNCHANGED <<schema, out, pc, page>>

RowToggle ==
    /\ pc = "columns"
    /\ \E i \in DOMAIN tables : \E j \in DOMAIN tables[i].columns :
          \E field \in {"primaryKey", "nullable", "unique"} :
              StoreBecomes(handleToggle(Store, tables[i].id, tables[i].columns[j], field))
    /\ UNCHANGED <<schema, out, pc, page>>

\* disabled={!canUseAutoincrement || hasUUID}
RowAutoincrementCheckbox ==
    /\ pc = "columns"
    /\ \E i \in DOMAIN tables : \E j \in DOMAIN tables[i].columns :
          LET column == tables[i].columns[j]
          IN  /\ canUseAutoincrement(tables, tables[i].id, column)
              /\ DefaultKindOf(column) # "uuid"
              /\ StoreBecomes(CheckboxChange(Store, tables[i].id, column, "autoincrement"))
    /\ UNCHANGED <<schema, out, pc, page>>

\* disabled={!canUseUUID || hasAutoincrement}
RowUuidCheckbox ==
    /\ pc = "columns"
    /\ \E i \in DOMAIN tables : \E j \in DOMAIN tables[i].columns :
          LET column == tables[i].columns[j]
          IN  /\ canUseUUID(column)
              /\ DefaultKindOf(column) # "autoincrement"
              /\ StoreBecomes(CheckboxChange(Store, tables[i].id, column, "uuid"))
    /\ UNCHANGED <<schema, out, pc, page>>

\* disabled={!canUseNow}
RowNowCheckbox ==
    /\ pc = "columns"
    /\ \E i \in DOMAIN tables : \E j \in DOMAIN tables[i].columns :
          LET column == tables[i].columns[j]
          IN  /\ canUseNow(column)
              /\ StoreBecomes(CheckboxChange(Store, tables[i].id, column, "now"))
    /\ UNCHANGED <<schema, out, pc, page>>

\* the custom value field: a blank text clears the default
RowCustomValue ==
    /\ pc = "columns"
    /\ \E i \in DOMAIN tables : \E j \in DOMAIN tables[i].columns :
          \E value \in CustomValues :
              StoreBecomes(IF NotBlank(value)
                           THEN handleDefaultChange(Store, tables[i].id, tables[i].columns[j],
                                                    "value", value)
                           ELSE handleDefaultChange(Store, tables[i].id, tables[i].columns[j],
                                                    "", ""))
    /\ UNCHANGED <<schema, out, pc, page>>

RowDelete ==
    /\ pc = "columns"
    /\ \E i \in DOMAIN tables : \E j \in DOMAIN tables[i].columns :
          StoreBecomes(deleteColumn(Store, tables[i].id, tables[i].columns[j].id))
    /\ UNCHANGED <<schema, out, pc, page>>

NextColumns ==
    \/ ToolbarAddTable \/ TableAddColumn
    \/ RowNameChange \/ RowTypeChange \/ RowToggle
    \/ RowAutoincrementCheckbox \/ RowUuidCheckbox \/ RowNowCheckbox
    \/ RowCustomValue \/ RowDelete

SpecColumns == InitColumns /\ [][NextColumns]_vars

(***************************************************************************)
(* Project loading (app/editor/page.tsx, the auto-load effect)             *)
(*                                                                         *)
(* The page holds the URL's projectId (searchParams), the projectId state, *)
(* loadingRef and the fetches in flight, in the order they were started.   *)
(* The effect is due after a render in which searchParams or projectId     *)
(* changed; it runs to its end in one step.  What follows the awaits of    *)
(* loadProject runs in one step as well, when the response of its fetch    *)
(* has arrived; the responses arrive in any order and every fetch          *)
(* succeeds.  `raced` records that the last router.push replaced the URL   *)
(* of a project whose fetch was in flight, and which project that was.     *)
(***************************************************************************)
MaxPushes == 3

ProjectIds == {"A", "B"}

\* the schema the server holds for a project: the two differ
ProjectSchema(id) == IF id = "A" THEN RegularSchema(1, 1) ELSE RegularSchema(2, 1)

\* what loadProject hands to loadSchema
LoadedGraph(id) == denormalizeSchema(ProjectSchema(id), 1)

LoadingPage ==
    [kind |-> "loading", selectedEdgeId |-> Null, url |-> Null, projectId |-> Null,
     loadingRef |-> Null, fetches |-> <<>>, effectDue |-> TRUE, pushes |-> 0,
     raced |-> Null]

InitLoad ==
    /\ tables = <<>>
    /\ relations = <<>>
    /\ isNormalized = FALSE
    /\ schema = EmptySchema
    /\ out = NoOut
    /\ pc = "loading"
    /\ page = LoadingPage

\* s without its k-th element
RemoveAt(s, k) == [a \in 1..(Len(s) - 1) |-> IF a < k THEN s[a] ELSE s[a + 1]]

\* handleLoad(id): router.push(`/editor?projectId=${id}`)
HandleLoad ==
    /\ pc = "loading"
    /\ page.pushes < MaxPushes
    /\ \E id \in ProjectIds :
          /\ page.url # Some(id)
          /\ page' = [page EXCEPT
                 !.url = Some(id),
                 !.effectDue = TRUE,
                 !.pushes = @ + 1,
                 !.raced = IF page.url # Null /\ page.url[1] \in Range(page.fetches)
                           THEN page.url ELSE Null]
    /\ UNCHANGED <<tables, relations, schema, out, pc, isNormalized>>

\* the URL loses its projectId (the editor opened without a project)
OpenWithoutProject ==
    /\ pc = "loading"
    /\ page.pushes < MaxPushes
    /\ page.url # Null
    /\ page' = [page EXCEPT !.url = Null, !.effectDue = TRUE, !.pushes = @ + 1,
                            !.raced = Null]
    /\ UNCHANGED <<tables, relations, schema, out, pc, isNormalized>>

\* the effect would start a fetch: the URL names a project that is neither
\* being fetched according to loadingRef nor the one loaded
StartsFetch ==
    /\ page.url # Null
    /\ page.loadingRef # page.url
    /\ page.url # page.projectId

\* useEffect(..., [searchParams, projectId, loadSchema, handleNewProject])
AutoLoadEffect ==
    /\ pc = "loading"
    /\ page.effectDue
    /\ IF StartsFetch
       THEN /\ StoreBecomes(loadSchema(Store, <<>>, <<>>))
            /\ page' = [page EXCEPT !.loadingRef = page.url,
                                    !.projectId = Null,
                                    !.fetches = Append(@, page.url[1]),
                                    !.effectDue = page.projectId # Null]
       ELSE IF page.url = Null /\ page.projectId # Null
       THEN \* handleNewProject()
            /\ StoreBecomes(loadSchema(Store, <<>>, <<>>))
            /\ page' = [page EXCEPT !.projectId = Null, !.effectDue = TRUE]
       ELSE /\ page' = [page EXCEPT !.effectDue = FALSE]
            /\ UNCHANGED <<tables, relations, isNormalized>>
    /\ UNCHANGED <<schema, out, pc>>

\* loadProject after its awaits, for the k-th fetch in flight
ProjectArrives ==
    /\ pc = "loading"
    /\ \E k \in DOMAIN page.fetches :
          LET id == page.fetches[k]
              loaded == LoadedGraph(id)
          IN  /\ StoreBecomes(loadSchema(Store, loaded.tables, loaded.relations))
              /\ page' = [page EXCEPT !.projectId = Some(id),
                                      !.loadingRef = Null,
                                      !.fetches = RemoveAt(@, k),
                                      !.effectDue = @ \/ page.projectId # Some(id)]
    /\ UNCHANGED <<schema, out, pc>>

NextLoad == HandleLoad \/ OpenWithoutProject \/ AutoLoadEffect \/ ProjectArrives

SpecLoad == InitLoad /\ [][NextLoad]_vars

(***************************************************************************)
(* Views of an editor graph that forget the identifiers                    *)
(***************************************************************************)
SeqToBag(s) == [x \in Range(s) |-> Cardinality({i \in DOMAIN s : s[i] = x})]

ColumnView(c) ==
    [name |-> c.name, type |-> c.type, primaryKey |-> c.primaryKey,
     nullable |-> c.nullable, unique |-> c.unique, default |-> c.default]

TableView(t) ==
    [name |-> t.name,
     columns |-> SeqToBag([j \in DOMAIN t.columns |-> ColumnView(t.columns[j])])]

TablesView(tbls) == SeqToBag([i \in DOMAIN tbls |-> TableView(tbls[i])])

\* the endpoint <<tableId, columnId>> names a column of the graph
Resolves(tbls, tableId, columnId) ==
    \E i \in DOMAIN tbls :
        /\ tbls[i].id = tableId
        /\ \E j \in DOMAIN tbls[i].columns : tbls[i].columns[j].id = columnId

Orphaned(tbls, r) ==
    \/ ~Resolves(tbls, r.fromTableId, r.fromColumnId)
    \/ ~Resolves(tbls, r.toTableId, r.toColumnId)

TableById(tbls, tableId) == tbls[CHOOSE i \in DOMAIN tbls : tbls[i].id = tableId]

ColumnById(t, columnId) ==
    t.columns[CHOOSE j \in DOMAIN t.columns : t.columns[j].id = columnId]

\* a resolving relation's endpoints by name
EndpointNames(tbls, r) ==
    [fromTable |-> TableById(tbls, r.fromTableId).name,
     fromColumn |-> ColumnById(TableById(tbls, r.fromTableId), r.fromColumnId).name,
     toTable |-> TableById(tbls, r.toTableId).name,
     toColumn |-> ColumnById(TableById(tbls, r.toTableId), r.toColumnId).name]

RelationsView(tbls, rels) ==
    {EndpointNames(tbls, rels[k]) : k \in {k \in DOMAIN rels : ~Orphaned(tbls, rels[k])}}

NoOrphans == \A k \in DOMAIN relations : ~Orphaned(tables, relations[k])

DistinctNames(s) == \A i, j \in DOMAIN s : s[i].name = s[j].name => i = j

RoundTripIsomorphic ==
    /\ TablesView(out.graph.tables) = TablesView(tables)
    /\ RelationsView(out.graph.tables, out.graph.relations)
           = RelationsView(tables, relations)
    /\ \A k \in DOMAIN out.graph.relations :
           ~Orphaned(out.graph.tables, out.graph.relations[k])

\* what the canonical form can hold: one entry per name, one foreignKey per
\* column, and a relation only between tables whose names are not empty
RoundTripRepresentable ==
    /\ DistinctNames(tables)
    /\ \A i \in DOMAIN tables : DistinctNames(tables[i].columns)
    /\ \A k \in DOMAIN relations :
           /\ TableById(tables, relations[k].fromTableId).name # N_empty
           /\ TableById(tables, relations[k].toTableId).name # N_empty
    /\ \A k, l \in DOMAIN relations :
           (relations[k].toTableId = relations[l].toTableId
            /\ relations[k].toColumnId = relations[l].toColumnId)
           => (relations[k].fromTableId = relations[l].fromTableId
               /\ relations[k].fromColumnId = relations[l].fromColumnId)

LastOfName(s, i) == \A k \in DOMAIN s : s[k].name = s[i].name => k <= i

CanonicalColumnOf(i, j) ==
    ObjGet(ObjGet(schema.tables, tables[i].name).columns, tables[i].columns[j].name)

\* the relations whose four identifiers resolve and whose `to` endpoint is
\* column j of table i
ResolvingInto(i, j) ==
    {k \in DOMAIN relations :
        /\ ~Orphaned(tables, relations[k])
        /\ relations[k].toTableId = tables[i].id
        /\ relations[k].toColumnId = tables[i].columns[j].id}

\* C2: normalize never fails; a canonical column carries foreignKey iff some
\* relation whose four endpoint identifiers resolve has that column as its
\* `to` endpoint, and the metadata names the table and column of such a
\* relation's `from` endpoint; a relation with an unresolved endpoint gives
\* no foreignKey.
C2_ForeignKeyIffResolvingRelation ==
    pc = "canon" =>
        \A i \in DOMAIN tables : \A j \in DOMAIN tables[i].columns :
            (LastOfName(tables, i) /\ LastOfName(tables[i].columns, j)) =>
                LET fk == CanonicalColumnOf(i, j).foreignKey
                IN  /\ fk # <<>> <=> ResolvingInto(i, j) # {}
                    /\ fk # <<>> =>
                           \E k \in ResolvingInto(i, j) :
                               /\ fk[1].table = EndpointNames(tables, relations[k]).fromTable
                               /\ fk[1].column = EndpointNames(tables, relations[k]).fromColumn

\* C3: two tables sharing a name give one canonical entry under that name,
\* holding the later table's columns; two columns of a table sharing a name
\* give one canonical column, holding the later column's type, flags and
\* default.
C3_LaterOverwrites ==
    pc = "canon" =>
        /\ \A a, b \in DOMAIN schema.tables :
               schema.tables[a].key = schema.tables[b].key => a = b
        /\ {schema.tables[a].key : a \in DOMAIN schema.tables}
               = {tables[i].name : i \in DOMAIN tables}
        /\ \A i \in DOMAIN tables : LastOfName(tables, i) =>
               LET entry == ObjGet(schema.tables, tables[i].name)
                   cols == tables[i].columns
               IN  /\ entry.name = tables[i].name
                   /\ \A a, b \in DOMAIN entry.columns :
                          entry.columns[a].key = entry.columns[b].key => a = b
                   /\ {entry.columns[a].key : a \in DOMAIN entry.columns}
                          = {cols[j].name : j \in DOMAIN cols}
                   /\ \A j \in DOMAIN cols : LastOfName(cols, j) =>
                          LET c == ObjGet(entry.columns, cols[j].name)
                          IN  [name |-> c.name, type |-> c.type,
                               primaryKey |-> c.primaryKey, nullable |-> c.nullable,
                               unique |-> c.unique, default |-> c.default]
                              = ColumnView(cols[j])

\* two tables of one name and unlike columns, or two columns of one name
C3_Witness ==
    /\ pc = "canon"
    /\ \/ \E i, k \in DOMAIN tables :
              /\ i < k /\ tables[i].name = tables[k].name
              /\ Len(tables[i].columns) = 2
              /\ TableView(tables[i]) # TableView(tables[k])
       \/ \E i \in DOMAIN tables : \E j, l \in DOMAIN tables[i].columns :
              /\ j < l /\ tables[i].columns[j].name = tables[i].columns[l].name
              /\ ColumnView(tables[i].columns[j]) # ColumnView(tables[i].columns[l])


(***************************************************************************)
(* Claims about the canonical schema: denormalize, validate, the guard     *)
(***************************************************************************)
ColumnsOf(i) == schema.tables[i].val.columns

HasKey(obj, k) == \E a \in DOMAIN obj : obj[a].key = k

IndexOfKey(obj, k) == CHOOSE a \in DOMAIN obj : obj[a].key = k

\* the columns <<i, j>> of the schema that carry foreignKey
ForeignKeyColumns ==
    {ij \in (DOMAIN schema.tables) \X (1..MaxCols) :
        /\ ij[2] \in DOMAIN ColumnsOf(ij[1])
        /\ ColumnsOf(ij[1])[ij[2]].val.foreignKey # <<>>}

ForeignKeyOf(ij) == ColumnsOf(ij[1])[ij[2]].val.foreignKey[1]

TargetTablePresent(ij) == HasKey(schema.tables, ForeignKeyOf(ij).table)

TargetColumnPresent(ij) ==
    /\ TargetTablePresent(ij)
    /\ HasKey(ColumnsOf(IndexOfKey(schema.tables, ForeignKeyOf(ij).table)),
              ForeignKeyOf(ij).column)

TargetColumn(ij) ==
    LET k == IndexOfKey(schema.tables, ForeignKeyOf(ij).table)
    IN  ColumnsOf(k)[IndexOfKey(ColumnsOf(k), ForeignKeyOf(ij).column)].val

\* the relation denormalize owes to column ij, by the identifiers it gave
OwedRelation(g, ij) ==
    LET k == IndexOfKey(schema.tables, ForeignKeyOf(ij).table)
        l == IndexOfKey(ColumnsOf(k), ForeignKeyOf(ij).column)
    IN  [fromTableId |-> g.tables[k].id,
         fromColumnId |-> g.tables[k].columns[l].id,
         toTableId |-> g.tables[ij[1]].id,
         toColumnId |-> g.tables[ij[1]].columns[ij[2]].id]

Endpoints(r) ==
    [fromTableId |-> r.fromTableId, fromColumnId |-> r.fromColumnId,
     toTableId |-> r.toTableId, toColumnId |-> r.toColumnId]

\* C4: denormalize never raises; it returns every table, and exactly one
\* relation per column whose foreignKey names a table and a column present in
\* the schema, from (id of T, id of C) to (id of the owning table, id of the
\* column); a foreignKey naming an absent table or column yields no relation.
C4_DenormalizeRelations ==
    pc = "loaded" =>
        LET g == out.graph
            owing == {ij \in ForeignKeyColumns : TargetColumnPresent(ij)}
        IN  /\ ~out.raised
            /\ Len(g.tables) = Len(schema.tables)
            /\ \A i \in DOMAIN schema.tables :
                   /\ g.tables[i].name = schema.tables[i].val.name
                   /\ Len(g.tables[i].columns) = Len(ColumnsOf(i))
            /\ Len(g.relations) = Cardinality(owing)
            /\ {Endpoints(g.relations[k]) : k \in DOMAIN g.relations}
                   = {OwedRelation(g, ij) : ij \in owing}

\* one foreignKey resolves and another names an absent table
C4_Witness ==
    /\ pc = "loaded"
    /\ Len(schema.tables) = 2
    /\ Len(out.graph.relations) = 1
    /\ \E ij \in ForeignKeyColumns : ~TargetTablePresent(ij)

\* C5: validate never raises and does not stop at the first error: the error
\* list is the errors of the table rules, then of the column rules, then of
\* the foreign-key rules, then of the default rules, each group computed over
\* the whole schema whatever the other groups found; valid iff the list is
\* empty.
C5_AllGroupsInOrder ==
    pc = "validated" =>
        /\ ~out.raised
        /\ out.result.errors = validateTables(schema, <<>>)
                               \o validateColumns(schema, <<>>)
                               \o validateForeignKeys(schema, <<>>)
                               \o validateDefaults(schema, <<>>)
        /\ out.result.valid <=> out.result.errors = <<>>

\* errors in the first group and in a later one
C5_Witness ==
    /\ pc = "validated"
    /\ validateTables(schema, <<>>) # <<>>
    /\ validateDefaults(schema, <<>>) # <<>>
    /\ Len(out.result.errors) >= 3

ErrorsAbout(tableName) ==
    {k \in DOMAIN out.result.errors : out.result.errors[k].table = tableName}

PrimaryKeyCount(i) ==
    Cardinality({j \in DOMAIN ColumnsOf(i) : ColumnsOf(i)[j].val.primaryKey})

\* C6: every table must have exactly one primary-key column: validate
\* reports at least one error, and valid = false, for each table with no
\* primary-key column and for each table with more than one.
C6_ExactlyOnePrimaryKey ==
    pc = "validated" =>
        \A i \in DOMAIN schema.tables :
            PrimaryKeyCount(i) # 1 =>
                /\ ErrorsAbout(schema.tables[i].key) # {}
                /\ ~out.result.valid


\* the positions of the errors of the given codes reported for column ij
ErrorsOfColumn(ij, codes) ==
    {k \in DOMAIN out.result.errors :
        /\ out.result.errors[k].code \in codes
        /\ out.result.errors[k].table = schema.tables[ij[1]].key
        /\ out.result.errors[k].column = <<ColumnsOf(ij[1])[ij[2]].key>>}

CodesOfColumn(ij, codes) ==
    {out.result.errors[k].code : k \in ErrorsOfColumn(ij, codes)}

\* no code is reported twice for the column
EachCodeOnce(ij, codes) ==
    Cardinality(ErrorsOfColumn(ij, codes)) = Cardinality(CodesOfColumn(ij, codes))

ForeignKeyCodes ==
    {"FK_TABLE_NOT_FOUND", "FK_COLUMN_NOT_FOUND", "FK_NOT_PRIMARY_KEY", "FK_TYPE_MISMATCH"}

\* the foreign-key errors of column ij are exactly those of the cascade, where
\* mismatch(t1, t2) says when two declared types count as mismatched
ForeignKeyCascade(ij, mismatch(_, _)) ==
    LET codes == CodesOfColumn(ij, ForeignKeyCodes)
    IN  /\ EachCodeOnce(ij, ForeignKeyCodes)
        /\ IF ~TargetTablePresent(ij) THEN codes = {"FK_TABLE_NOT_FOUND"}
           ELSE IF ~TargetColumnPresent(ij) THEN codes = {"FK_COLUMN_NOT_FOUND"}
           ELSE /\ "FK_TABLE_NOT_FOUND" \notin codes
                /\ "FK_COLUMN_NOT_FOUND" \notin codes
                /\ "FK_NOT_PRIMARY_KEY" \in codes <=> ~TargetColumn(ij).primaryKey
                /\ "FK_TYPE_MISMATCH" \in codes
                       <=> mismatch(ColumnsOf(ij[1])[ij[2]].val.type, TargetColumn(ij).type)

TypesDiffer(t1, t2) == t1 # t2

DeclaredTypesDiffer(t1, t2) == t1 # "" /\ t2 # "" /\ t1 # t2

\* C7 as stated: FK_TYPE_MISMATCH iff the two declared types differ.
C7_ForeignKeyCascade_AsStated ==
    pc = "validated" => \A ij \in ForeignKeyColumns : ForeignKeyCascade(ij, TypesDiffer)

\* C7: for every column carrying foreignKey, validate emits exactly
\* FK_TABLE_NOT_FOUND if the referenced table does not exist; otherwise exactly
\* FK_COLUMN_NOT_FOUND if the referenced column does not exist in that table;
\* otherwise FK_NOT_PRIMARY_KEY iff the referenced column is not a primary key
\* and FK_TYPE_MISMATCH iff both declared types are non-empty and differ.
C7_ForeignKeyCascade ==
    pc = "validated" => \A ij \in ForeignKeyColumns : ForeignKeyCascade(ij, DeclaredTypesDiffer)

\* a resolving foreignKey to a non-primary column of another type, and one
\* to an absent table, in the same schema
C7_Witness ==
    /\ pc = "validated"
    /\ \E ij \in ForeignKeyColumns :
           CodesOfColumn(ij, ForeignKeyCodes) = {"FK_NOT_PRIMARY_KEY", "FK_TYPE_MISMATCH"}
    /\ \E ij \in ForeignKeyColumns :
           CodesOfColumn(ij, ForeignKeyCodes) = {"FK_TABLE_NOT_FOUND"}

\* the identifier convention: starts with a lowercase letter or an
\* underscore, continues with lowercase letters, digits and underscores, and
\* holds no doubled underscore
FollowsConvention(name) ==
    /\ name # <<>>
    /\ IsLower(name[1]) \/ name[1] = "_"
    /\ \A k \in 2..Len(name) : IsLower(name[k]) \/ name[k] \in Digits \/ name[k] = "_"
    /\ \A k \in 1..(Len(name) - 1) : ~(name[k] = "_" /\ name[k + 1] = "_")

NotSnakeCaseErrors(i) ==
    {k \in DOMAIN out.result.errors :
        /\ out.result.errors[k].code = "TABLE_NOT_SNAKE_CASE"
        /\ out.result.errors[k].table = schema.tables[i].key}

\* C8: for every table with a non-empty name, validate returns exactly one
\* TABLE_NOT_SNAKE_CASE error for that table (and valid = false) if the name
\* violates the identifier convention, and none if it satisfies it.
C8_SnakeCaseConvention ==
    pc = "validated" =>
        \A i \in DOMAIN schema.tables :
            schema.tables[i].val.name # <<>> =>
                IF FollowsConvention(schema.tables[i].val.name)
                THEN NotSnakeCaseErrors(i) = {}
                ELSE Cardinality(NotSnakeCaseErrors(i)) = 1 /\ ~out.result.valid

DefaultCodes ==
    {"COLUMN_MULTIPLE_AUTOINCREMENT", "COLUMN_AUTOINCREMENT_NOT_INT",
     "COLUMN_AUTOINCREMENT_NOT_PK", "COLUMN_UUID_ON_INT", "COLUMN_NOW_NOT_TIMESTAMP"}

DefaultKindIs(i, j, kind) ==
    /\ ColumnsOf(i)[j].val.default # <<>>
    /\ ColumnsOf(i)[j].val.default[1].kind = kind

\* C9: per table, every autoincrement column after the first in column order
\* gets COLUMN_MULTIPLE_AUTOINCREMENT; an autoincrement column gets
\* COLUMN_AUTOINCREMENT_NOT_INT iff its type is not int and
\* COLUMN_AUTOINCREMENT_NOT_PK iff it is not a primary key; a uuid default
\* gets COLUMN_UUID_ON_INT iff the type is int; a now default gets
\* COLUMN_NOW_NOT_TIMESTAMP iff the type is not timestamp; a value default
\* and a column without default get no default-rule error.
C9_DefaultRules ==
    pc = "validated" =>
        \A i \in DOMAIN schema.tables : \A j \in DOMAIN ColumnsOf(i) :
            LET column == ColumnsOf(i)[j].val
                codes == CodesOfColumn(<<i, j>>, DefaultCodes)
                auto == DefaultKindIs(i, j, "autoincrement")
            IN  /\ EachCodeOnce(<<i, j>>, DefaultCodes)
                /\ "COLUMN_MULTIPLE_AUTOINCREMENT" \in codes
                       <=> auto /\ \E h \in 1..(j - 1) : DefaultKindIs(i, h, "autoincrement")
                /\ "COLUMN_AUTOINCREMENT_NOT_INT" \in codes <=> auto /\ column.type # "int"
                /\ "COLUMN_AUTOINCREMENT_NOT_PK" \in codes <=> auto /\ ~column.primaryKey
                /\ "COLUMN_UUID_ON_INT" \in codes
                       <=> DefaultKindIs(i, j, "uuid") /\ column.type = "int"
                /\ "COLUMN_NOW_NOT_TIMESTAMP" \in codes
                       <=> DefaultKindIs(i, j, "now") /\ column.type # "timestamp"

\* a second autoincrement column in a table, neither int nor primary key
C9_Witness ==
    /\ pc = "validated"
    /\ \E i \in DOMAIN schema.tables : \E j \in DOMAIN ColumnsOf(i) :
           CodesOfColumn(<<i, j>>, DefaultCodes)
               = {"COLUMN_MULTIPLE_AUTOINCREMENT", "COLUMN_AUTOINCREMENT_NOT_INT",
                  "COLUMN_AUTOINCREMENT_NOT_PK"}

\* the violations of the guard's rules, as <<kind, table key, column key>>
GuardViolations ==
    UNION {
        LET c == ColumnsOf(ij[1])[ij[2]]
            at(kind) == <<kind, schema.tables[ij[1]].key, c.key>>
        IN  (IF c.val.primaryKey THEN {at("PK_WITH_FK")} ELSE {})
            \cup (IF ~TargetTablePresent(ij) THEN {at("FK_TABLE_MISSING")}
                  ELSE IF ~TargetColumnPresent(ij) THEN {at("FK_COLUMN_MISSING")}
                  ELSE IF ~TargetColumn(ij).primaryKey THEN {at("FK_NOT_PK")}
                  ELSE {})
        : ij \in ForeignKeyColumns}

\* C10: the guard returns normally iff no column violates its foreign-key
\* rules; otherwise it fails once, after collecting the violations of all
\* columns of all tables, and the aggregated error lists every violation
\* once, numbered consecutively from 1, each with its table and column.
C10_GuardAggregates ==
    pc = "guarded" =>
        LET r == out.result
        IN  /\ r.threw <=> GuardViolations # {}
            /\ r.count = Len(r.lines)
            /\ r.count = Cardinality(GuardViolations)
            /\ \A k \in DOMAIN r.lines : r.lines[k].index = k
            /\ {<<r.lines[k].err.kind, r.lines[k].err.table, r.lines[k].err.column>>
                    : k \in DOMAIN r.lines} = GuardViolations

\* violations in two tables, one column violating two rules at once
C10_Witness ==
    /\ pc = "guarded"
    /\ out.result.threw
    /\ out.result.count >= 3
    /\ \E a, b \in DOMAIN out.result.lines :
           out.result.lines[a].err.table # out.result.lines[b].err.table


\* C11: for every column whose foreignKey names an existing table and an
\* existing column that is not a primary key, validate reports
\* FK_NOT_PRIMARY_KEY for that table and column, and the guard aborts with a
\* violation in its list that names the same table and column.
C11_NotPrimaryKeyInBoth ==
    pc = "guarded" =>
        \A ij \in ForeignKeyColumns :
            (TargetColumnPresent(ij) /\ ~TargetColumn(ij).primaryKey) =>
                LET errors == validateSchema(schema).errors
                    tableName == schema.tables[ij[1]].key
                    columnName == ColumnsOf(ij[1])[ij[2]].key
                IN  /\ \E k \in DOMAIN errors :
                           /\ errors[k].code = "FK_NOT_PRIMARY_KEY"
                           /\ errors[k].table = tableName
                           /\ errors[k].column = <<columnName>>
                    /\ out.result.threw
                    /\ \E k \in DOMAIN out.result.lines :
                           /\ out.result.lines[k].err.kind = "FK_NOT_PK"
                           /\ out.result.lines[k].err.table = tableName
                           /\ out.result.lines[k].err.column = columnName

\* a foreignKey to an existing column that is not a primary key, after
\* another violation of the guard in an earlier column
C11_Witness ==
    /\ pc = "guarded"
    /\ out.result.count >= 2
    /\ out.result.lines[1].err.kind # "FK_NOT_PK"
    /\ \E ij \in ForeignKeyColumns : TargetColumnPresent(ij) /\ ~TargetColumn(ij).primaryKey


(***************************************************************************)
(* Claims about the generators                                             *)
(***************************************************************************)
\* the schema with the foreignKey of every primary-key column removed
WithoutKeyForeignKeys(sch) ==
    [tables |->
        [i \in DOMAIN sch.tables |->
            [sch.tables[i] EXCEPT !.val.columns =
                [j \in DOMAIN sch.tables[i].val.columns |->
                    LET e == sch.tables[i].val.columns[j]
                    IN  IF e.val.primaryKey
                        THEN [e EXCEPT !.val.foreignKey = NoForeignKey]
                        ELSE e]]]]

KeyForeignKeyColumns ==
    {ij \in ForeignKeyColumns : ColumnsOf(ij[1])[ij[2]].val.primaryKey}

\* the only special feature of the schema is a primary-key column with a
\* foreignKey to an existing primary-key column of the same type
OneToOneOnly ==
    /\ KeyForeignKeyColumns # {}
    /\ \A ij \in KeyForeignKeyColumns :
           /\ TargetColumnPresent(ij)
           /\ TargetColumn(ij).primaryKey
           /\ TargetColumn(ij).type = ColumnsOf(ij[1])[ij[2]].val.type
    /\ validateSchema(WithoutKeyForeignKeys(schema)).valid
    /\ ~validateSchemaForGeneration(WithoutKeyForeignKeys(schema)).threw

C14_FailFast ==
    (pc = "rendered" /\ ~validateSchema(schema).valid) => out.result.threw


SqlRendered == pc = "rendered" /\ out.kind = "sql" /\ ~out.result.threw

\* table a has a column with a foreignKey into another table b of the schema
DependsOn(a, b) ==
    /\ a # b
    /\ \E j \in DOMAIN ColumnsOf(a) :
           /\ ColumnsOf(a)[j].val.foreignKey # <<>>
           /\ ColumnsOf(a)[j].val.foreignKey[1].table = schema.tables[b].key

\* b is reached from a by at least one and at most k dependencies
RECURSIVE ReachesIn(_, _, _)
ReachesIn(a, b, k) ==
    /\ k > 0
    /\ \/ DependsOn(a, b)
       \/ \E c \in DOMAIN schema.tables : DependsOn(a, c) /\ ReachesIn(c, b, k - 1)

\* no table depends on itself through other tables
Acyclic == \A a \in DOMAIN schema.tables : ~ReachesIn(a, a, Len(schema.tables))

StatementsOf(i) ==
    {k \in DOMAIN out.result.text : out.result.text[k].name = schema.tables[i].val.name}

StatementOf(i) == CHOOSE k \in DOMAIN out.result.text : k \in StatementsOf(i)

\* C15: renderSql emits exactly one CREATE TABLE statement per table, and
\* for a schema that passes the guard and has no dependency cycle (a table
\* referring to itself is not one), whenever a column of table A has a
\* foreignKey into a different table B, the statement of B comes before that
\* of A.
C15_DependencyOrder ==
    SqlRendered =>
        /\ Len(out.result.text) = Len(schema.tables)
        /\ \A i \in DOMAIN schema.tables : Cardinality(StatementsOf(i)) = 1
        /\ Acyclic =>
               \A a, b \in DOMAIN schema.tables :
                   DependsOn(a, b) => StatementOf(b) < StatementOf(a)

\* the first table of the schema refers to the second, which is emitted first
C15_Witness ==
    /\ SqlRendered
    /\ Acyclic
    /\ Len(schema.tables) = 2
    /\ DependsOn(1, 2)
    /\ out.result.text[1].name = schema.tables[2].val.name


\* every table of the schema is in the result exactly once
EachTableOnce(ordered) ==
    /\ Len(ordered) = Len(schema.tables)
    /\ \A i \in DOMAIN schema.tables :
           Cardinality({k \in DOMAIN ordered : ordered[k] = schema.tables[i].key}) = 1

\* C16: the topological ordering terminates for every schema, including
\* schemas whose foreignKeys form a cycle or refer to the table itself, and
\* its result, which is what renderSql orders its statements by, contains
\* every table of the schema exactly once.
C16_OrderingTerminates ==
    (pc = "ordering") ~>
        (/\ pc = "ordered"
         /\ EachTableOnce(out.ordered)
         /\ out.ordered = orderTables(schema))

\* the ordering has ended on two tables that refer to each other
C16_Witness ==
    /\ pc = "ordered"
    /\ Len(schema.tables) = 2
    /\ DependsOn(1, 2)
    /\ DependsOn(2, 1)
    /\ Len(out.ordered) = 2


DefinitionsOf(i) == out.result.text[StatementOf(i)].definitions

ClausesOfKind(i, kind) == {k \in DOMAIN DefinitionsOf(i) : DefinitionsOf(i)[k].kind = kind}

\* the clause of column j of table i carries the inline PRIMARY KEY marker
InlinePrimaryKey(i, j) ==
    /\ DefinitionsOf(i)[j].kind = "column"
    /\ DefinitionsOf(i)[j].column = ColumnsOf(i)[j].val.name
    /\ "PRIMARY KEY" \in Range(DefinitionsOf(i)[j].parts)

\* C17: in renderSql a table with exactly one primary-key column gets the
\* inline PRIMARY KEY marker on that column's clause and no table-level
\* PRIMARY KEY clause; a table with more than one gets one table-level
\* PRIMARY KEY clause listing all its primary-key columns, and no column
\* clause carries the inline marker.
C17_PrimaryKeyClauses ==
    SqlRendered =>
        \A i \in DOMAIN schema.tables :
            LET pkNames == PrimaryKeyNames(ColumnsOf(i), Len(ColumnsOf(i)))
            IN  /\ PrimaryKeyCount(i) = 1 =>
                       /\ \A j \in DOMAIN ColumnsOf(i) :
                              InlinePrimaryKey(i, j) <=> ColumnsOf(i)[j].val.primaryKey
                       /\ ClausesOfKind(i, "primaryKey") = {}
                /\ PrimaryKeyCount(i) > 1 =>
                       /\ \A j \in DOMAIN ColumnsOf(i) : ~InlinePrimaryKey(i, j)
                       /\ Cardinality(ClausesOfKind(i, "primaryKey")) = 1
                       /\ \A k \in ClausesOfKind(i, "primaryKey") :
                              DefinitionsOf(i)[k].columns = pkNames

\* the columns of table i that get a FOREIGN KEY clause
ConstrainedColumns(i) ==
    {j \in DOMAIN ColumnsOf(i) :
        ColumnsOf(i)[j].val.foreignKey # <<>> /\ ~ColumnsOf(i)[j].val.primaryKey}

\* C18: in every CREATE TABLE statement the FOREIGN KEY clauses come after
\* all column clauses, and there is exactly one FOREIGN KEY clause for each
\* column of the table that carries foreignKey and is not a primary key,
\* naming that column and its referenced table and column, and no other.
C18_ForeignKeyClauses ==
    SqlRendered =>
        \A i \in DOMAIN schema.tables :
            LET defs == DefinitionsOf(i)
                fks == ClausesOfKind(i, "foreignKey")
            IN  /\ \A j \in DOMAIN ColumnsOf(i) :
                       defs[j].kind = "column" /\ defs[j].column = ColumnsOf(i)[j].val.name
                /\ \A k \in fks : \A l \in DOMAIN defs : l > k => l \in fks
                /\ \A k \in fks : k > Len(ColumnsOf(i))
                /\ Cardinality(fks) = Cardinality(ConstrainedColumns(i))
                /\ {<<defs[k].column, defs[k].refTable, defs[k].refColumn>> : k \in fks}
                       = {<<ColumnsOf(i)[j].val.name,
                            ColumnsOf(i)[j].val.foreignKey[1].table,
                            ColumnsOf(i)[j].val.foreignKey[1].column>>
                              : j \in ConstrainedColumns(i)}

\* a statement with two FOREIGN KEY clauses, after its two column clauses
C18_Witness ==
    /\ SqlRendered
    /\ \E i \in DOMAIN schema.tables :
           /\ Cardinality(ClausesOfKind(i, "foreignKey")) = 2
           /\ Len(DefinitionsOf(i)) = Len(ColumnsOf(i)) + 2

OrmRendered == pc = "rendered" /\ out.kind = "orm" /\ ~out.result.threw

\* the schema with its tables inserted in the opposite order
ReversedSchema(sch) ==
    [tables |-> [i \in DOMAIN sch.tables |-> sch.tables[Len(sch.tables) + 1 - i]]]

\* the column a scalar field line stands for: the argument of @map, or the
\* field name when there is no @map
ColumnOfField(f) ==
    IF \E a \in DOMAIN f.attributes : f.attributes[a].attr = "@map"
    THEN f.attributes[CHOOSE a \in DOMAIN f.attributes : f.attributes[a].attr = "@map"].arg
    ELSE f.name

\* C19: renderOrmSchema emits exactly one model block per table, ordered
\* alphabetically by table name (not by model name), with the scalar fields
\* of each model in the table's column order; the order of the models does
\* not depend on the insertion order of the tables.
C19_ModelsSortedByTableName ==
    OrmRendered =>
        LET text == out.result.text
            reversed == generatePrismaSchema(out.copy, ReversedSchema(schema)).text
        IN  /\ Len(text) = Len(schema.tables)
            /\ \A i \in DOMAIN schema.tables :
                   Cardinality({k \in DOMAIN text : text[k].map = schema.tables[i].key}) = 1
            /\ \A k, l \in DOMAIN text : k < l => StringLess(text[k].map, text[l].map)
            /\ \A k \in DOMAIN text :
                   LET i == IndexOfKey(schema.tables, text[k].map)
                       scalars == {f \in DOMAIN text[k].fields :
                                      text[k].fields[f].kind = "scalar"}
                   IN  /\ scalars = DOMAIN ColumnsOf(i)
                       /\ \A j \in scalars :
                              ColumnOfField(text[k].fields[j]) = ColumnsOf(i)[j].val.name
            /\ [k \in DOMAIN text |-> text[k].map] = [k \in DOMAIN reversed |-> reversed[k].map]

\* two tables inserted against the alphabet, whose model names sort the
\* other way round than their table names
C19_Witness ==
    /\ OrmRendered
    /\ Len(out.result.text) = 2
    /\ out.result.text[1].map = schema.tables[2].key
    /\ StringLess(out.result.text[2].name, out.result.text[1].name)
    /\ Len(ColumnsOf(1)) = 2


\* the cascade of the claim on one word (a word of a single letter has no
\* suffix to speak of and is kept)
CascadeSingular(word) ==
    IF Len(word) <= 1 THEN word
    ELSE IF endsWith(word, <<"s", "s">>) THEN word
    ELSE IF endsWith(word, <<"i", "e", "s">>) THEN Append(SliceOff(word, 3), "y")
    ELSE IF endsWith(word, <<"v", "e", "s">>) THEN Append(SliceOff(word, 3), "f")
    ELSE IF \/ endsWith(word, <<"s", "e", "s">>) \/ endsWith(word, <<"x", "e", "s">>)
            \/ endsWith(word, <<"c", "h", "e", "s">>) \/ endsWith(word, <<"s", "h", "e", "s">>)
    THEN SliceOff(word, 2)
    ELSE IF endsWith(word, <<"s">>) THEN SliceOff(word, 1)
    ELSE word

\* the words split on underscores, each singularized by the cascade, then
\* capitalized, and concatenated
CascadeModelName(name) ==
    LET words == Split(name)
    IN  Join([k \in DOMAIN words |-> Capitalize(CascadeSingular(words[k]))], <<>>)

\* C20: the model name of a table is obtained by splitting the table name on
\* underscores, singularizing each word with the cascade (double-s unchanged;
\* -ies -> -y; -ves -> -f; -ses/-xes/-ches/-shes -> drop two characters;
\* trailing -s -> drop it; else unchanged), then capitalizing each word and
\* concatenating.
C20_ModelNameCascade ==
    pc = "named" => out.result = CascadeModelName(out.name)


\* the model emitted for the table of that name
ModelOf(tableName) ==
    out.result.text[CHOOSE k \in DOMAIN out.result.text :
                        out.result.text[k].map = tableName]

\* the columns of table i that carry a foreignKey
ForeignKeyColumnsOf(i) ==
    {j \in DOMAIN ColumnsOf(i) : ColumnsOf(i)[j].val.foreignKey # <<>>}

\* the scalar field emitted for column j of table i
ScalarFieldOf(i, j) == ModelOf(schema.tables[i].key).fields[j]

\* the relation field emitted for column j of table i, a foreignKey column:
\* the relation fields follow the scalar fields, one per foreignKey column
RelationFieldOf(i, j) ==
    ModelOf(schema.tables[i].key).fields[
        Len(ColumnsOf(i)) + Cardinality({l \in ForeignKeyColumnsOf(i) : l <= j})]

FieldHasMap(f, columnName) ==
    \E a \in DOMAIN f.attributes :
        f.attributes[a].attr = "@map" /\ f.attributes[a].arg = columnName

\* C21: the scalar field of a column that carries a foreignKey is named from
\* the referenced model name with an Id suffix and is annotated with the true
\* column name; the relation field emitted for that column is typed as the
\* referenced model, and its fields mapping names exactly the scalar field
\* emitted for that same column.
C21_ForeignKeyFieldNaming ==
    OrmRendered =>
        \A i \in DOMAIN schema.tables : \A j \in ForeignKeyColumnsOf(i) :
            LET column == ColumnsOf(i)[j].val
                referenced == ModelOf(column.foreignKey[1].table).name
            IN  /\ ScalarFieldOf(i, j).kind = "scalar"
                /\ ScalarFieldOf(i, j).name = toCamelCase(referenced) \o IdSuffix
                /\ FieldHasMap(ScalarFieldOf(i, j), column.name)
                /\ RelationFieldOf(i, j).kind = "relation"
                /\ RelationFieldOf(i, j).type = referenced
                /\ RelationFieldOf(i, j).fields = ScalarFieldOf(i, j).name


\* table a has a column with a foreignKey into table b (possibly itself)
RefersTo(a, b) ==
    \E j \in ForeignKeyColumnsOf(a) :
        ColumnsOf(a)[j].val.foreignKey[1].table = schema.tables[b].key

\* the tables that refer to table i, in the order of the schema
ReferencingTables(i) ==
    LET refers(e) == RefersTo(IndexOfKey(schema.tables, e.key), i)
    IN  SelectSeq(schema.tables, refers)

\* the back-relation lines of the model of table i, in the order emitted
BackRelationsOf(i) ==
    LET isBack(f) == f.kind = "backRelation"
    IN  SelectSeq(ModelOf(schema.tables[i].key).fields, isBack)

\* C22: the model of table T gets exactly one back-relation line per
\* distinct table that has at least one column with a foreignKey into T, in
\* the order in which those tables are first seen when iterating the schema;
\* a table with several foreignKeys into T contributes a single line.
C22_BackRelations ==
    OrmRendered =>
        \A i \in DOMAIN schema.tables :
            LET referencing == ReferencingTables(i)
                back == BackRelationsOf(i)
            IN  /\ Len(back) = Len(referencing)
                /\ \A k \in DOMAIN back :
                       /\ back[k].name = toCamelCase(referencing[k].key)
                       /\ back[k].type = ModelOf(referencing[k].key).name

\* a table with two foreignKeys into another one, whose model lists it once
C22_Witness ==
    /\ OrmRendered
    /\ Len(schema.tables) = 2
    /\ Cardinality({j \in ForeignKeyColumnsOf(2) :
                        ColumnsOf(2)[j].val.foreignKey[1].table = schema.tables[1].key}) = 2
    /\ Len(BackRelationsOf(1)) = 1


MutatingCommands ==
    {"addTable", "updateTableName", "deleteTable", "addColumn", "updateColumn",
     "deleteColumn", "addRelation", "updateRelation", "removeRelation", "loadSchema"}

\* C23: every mutating command of the store leaves isNormalized = false,
\* whatever its value was before; otherwise only setNormalized changes the
\* flag, and getNormalizedSchema and setNormalized leave tables and relations
\* unchanged.
C23_MutationsInvalidate ==
    pc = "done" =>
        /\ out.name \in MutatingCommands => isNormalized = FALSE
        /\ out.name = "setNormalized" => isNormalized = out.args[1]
        /\ isNormalized # out.before.isNormalized =>
               out.name \in MutatingCommands \cup {"setNormalized"}
        /\ out.name \in {"getNormalizedSchema", "setNormalized"} =>
               /\ tables = out.before.tables
               /\ relations = out.before.relations

\* a column of a store whose flag was set has been updated
C23_Witness ==
    /\ pc = "done"
    /\ out.name = "updateColumn"
    /\ out.before.isNormalized
    /\ tables # out.before.tables
    /\ ~isNormalized


\* relation r has (tableId, columnId) as its from or to endpoint
HasEndpoint(r, tableId, columnId) ==
    \/ r.fromTableId = tableId /\ r.fromColumnId = columnId
    \/ r.toTableId = tableId /\ r.toColumnId = columnId

\* C25: deleteTable(id) removes, in one transition, the table and every
\* relation whose fromTableId or toTableId is id; deleteColumn(tableId,
\* columnId) removes the column and every relation having (tableId, columnId)
\* as its from or to endpoint; all other tables, columns and relations are
\* left unchanged.
C25_DeleteCascades ==
    /\ (pc = "done" /\ out.name = "deleteTable") =>
           LET id == out.args[1]
               otherTable(t) == t.id # id
               otherRelation(r) == r.fromTableId # id /\ r.toTableId # id
           IN  /\ tables = SelectSeq(out.before.tables, otherTable)
               /\ relations = SelectSeq(out.before.relations, otherRelation)
    /\ (pc = "done" /\ out.name = "deleteColumn") =>
           LET tableId == out.args[1]
               columnId == out.args[2]
               otherColumn(c) == c.id # columnId
               otherRelation(r) == ~HasEndpoint(r, tableId, columnId)
           IN  /\ Len(tables) = Len(out.before.tables)
               /\ \A i \in DOMAIN tables :
                      IF out.before.tables[i].id = tableId
                      THEN /\ tables[i].id = tableId
                           /\ tables[i].name = out.before.tables[i].name
                           /\ tables[i].columns =
                                  SelectSeq(out.before.tables[i].columns, otherColumn)
                      ELSE tables[i] = out.before.tables[i]
               /\ relations = SelectSeq(out.before.relations, otherRelation)

\* a table is deleted with one relation of two: the other table and the
\* other relation stay
C25_Witness ==
    /\ pc = "done"
    /\ out.name = "deleteTable"
    /\ Len(out.before.tables) = 2
    /\ Len(tables) = 1
    /\ Len(out.before.relations) = 2
    /\ Len(relations) = 1


\* C24: a schema that validate accepts never contains a dependency cycle
\* (table A depends on table B when a column of A has a foreignKey into B; a
\* table referring to itself is let pass), so in the renderSql output every
\* FOREIGN KEY clause references a table whose CREATE TABLE statement appears
\* earlier (or is the statement of the clause itself).
C24_ValidatedIsAcyclic ==
    (SqlRendered /\ validateSchema(schema).valid) =>
        /\ Acyclic
        /\ \A k \in DOMAIN out.result.text :
               \A d \in DOMAIN out.result.text[k].definitions :
                   LET clause == out.result.text[k].definitions[d]
                   IN  clause.kind = "foreignKey" =>
                           \E l \in 1..k : out.result.text[l].name = clause.refTable


\* C26: in every state reached from the empty store by the editor's commands
\* (add, rename, delete table; add, update, delete column; connect a primary
\* key to a column; change a relationship's target column in the edit panel;
\* remove a relationship), every relation of the store is non-orphaned: its
\* from and to identifiers each name a table and a column of the store.
C26_NoOrphanedRelation ==
    pc = "editor" => \A k \in DOMAIN relations : ~Orphaned(tables, relations[k])


\* C27: in every state reached from the empty store by the store's commands
\* and the editor's Normalise action, isNormalized = true implies that
\* validate(normalize(tables, relations)) is valid for the current tables and
\* relations; so the export panel hands a schema to a generator exactly when
\* the flag is set, that is when the graph has no validation error and has
\* not been changed since the last successful Normalise.
C27_NormalizedImpliesValid ==
    pc = "editor" =>
        /\ isNormalized => validateSchema(normalizeSchema(tables, relations)).valid
        /\ canExport <=> isNormalized

\* the flag is set on a graph of two tables joined by a relation
C27_Witness ==
    /\ pc = "editor"
    /\ isNormalized
    /\ Len(tables) = 2
    /\ \E k \in DOMAIN relations :
           /\ ~Orphaned(tables, relations[k])
           /\ relations[k].fromTableId # relations[k].toTableId



\* the fields of a model bear pairwise distinct names
DistinctFieldNames(model) ==
    \A a, b \in DOMAIN model.fields :
        model.fields[a].name = model.fields[b].name => a = b

\* C28: for every schema that validate accepts and that passes the guard,
\* every model emitted by generatePrismaSchema has pairwise distinct field
\* names across its scalar fields, relation fields and back-relation
\* fields, also when two columns of one table carry foreignKeys into the
\* same referenced table.
C28_DistinctFieldNames ==
    (OrmRendered /\ validateSchema(schema).valid) =>
        \A k \in DOMAIN out.result.text : DistinctFieldNames(out.result.text[k])


\* the columns of table i of the store whose default is of that kind
ColumnsWithDefault(i, kind) ==
    {j \in DOMAIN tables[i].columns : DefaultKindOf(tables[i].columns[j]) = kind}

\* C29: in every state reachable from the empty store through the column
\* editor's actions, no column violates the validator's default-value rules:
\* each table has at most one autoincrement column, every autoincrement
\* column has type int and is a primary key, no uuid default sits on an int
\* column, and every now default sits on a timestamp column; validateDefaults
\* reports nothing on the normalized schema.
C29_EditorKeepsDefaultRules ==
    pc = "columns" =>
        /\ \A i \in DOMAIN tables :
               /\ Cardinality(ColumnsWithDefault(i, "autoincrement")) <= 1
               /\ \A j \in ColumnsWithDefault(i, "autoincrement") :
                      tables[i].columns[j].type = "int" /\ tables[i].columns[j].primaryKey
               /\ \A j \in ColumnsWithDefault(i, "uuid") : tables[i].columns[j].type # "int"
               /\ \A j \in ColumnsWithDefault(i, "now") :
                      tables[i].columns[j].type = "timestamp"
        /\ validateDefaults(getNormalizedSchema(Store), <<>>) = <<>>

\* a table with an autoincrement column beside another int primary key, whose
\* autoincrement checkbox is disabled, both columns in the normalized schema
C29_Witness ==
    /\ pc = "columns"
    /\ \E i \in DOMAIN tables : \E j, l \in DOMAIN tables[i].columns :
          /\ j # l
          /\ tables[i].columns[j].name # tables[i].columns[l].name
          /\ DefaultKindOf(tables[i].columns[j]) = "autoincrement"
          /\ tables[i].columns[l].type = "int" /\ tables[i].columns[l].primaryKey
          /\ DefaultKindOf(tables[i].columns[l]) = ""
          /\ ~canUseAutoincrement(tables, tables[i].id, tables[i].columns[l])


\* the project of the URL is the one loaded
LoadedIsOfUrl ==
    /\ page.projectId = page.url
    /\ tables = LoadedGraph(page.url[1]).tables
    /\ relations = LoadedGraph(page.url[1]).relations

\* C30: if the URL's projectId changes from A to B while the fetch of A is
\* in flight then, whatever the order of the responses, once no fetch is in
\* flight the store's tables and relations and the projectId state are those
\* of project B, and no further fetch is started after that point.
C30_LateResponseNeverWins ==
    (pc = "loading" /\ page.raced # Null /\ page.fetches = <<>>) =>
        /\ LoadedIsOfUrl
        /\ ~(page.effectDue /\ StartsFetch)

\* once no fetch is in flight and the effect is not due either, the project
\* of the URL is the one loaded
LoadingSettlesOnUrl ==
    (pc = "loading" /\ page.raced # Null /\ page.fetches = <<>> /\ ~page.effectDue) =>
        LoadedIsOfUrl

====
